---- MODULE Spec2Model ----
(***************************************************************************)
(* State-machine model of the rust-iic emulator core: the IOU soft-switch  *)
(* fabric (src/src/iou.rs), the interrupt controller                       *)
(* (src/src/interrupts.rs), the bus (src/src/bus.rs) and the CPU step      *)
(* (src/src/cpu.rs).                                                       *)
(***************************************************************************)
EXTENDS Integers, Sequences, FiniteSets, TLC

(***************************************************************************)
(* Bounds of the model                                                     *)
(***************************************************************************)
\* longest sequence of bus accesses explored on the AppleIIc bus
MaxOps == 3

\* number of reads in a run of read-twice latch reads
MaxLatchReads == 259

\* largest number of CPU steps explored from a boot image
MaxSteps == 5
\* largest number of external interrupt requests made between CPU steps
MaxReq == 1

(***************************************************************************)
(* u8 / u16 arithmetic                                                     *)
(***************************************************************************)
Pow2(n) == 2 ^ n

BitAt(x, i) == (x \div Pow2(i)) % 2

\* x & y on u8
BitAnd(x, y) ==
    LET b(i) == Pow2(i) * (BitAt(x, i) * BitAt(y, i))
    IN b(0) + b(1) + b(2) + b(3) + b(4) + b(5) + b(6) + b(7)

\* x | y on u8
BitOr(x, y) == x + y - BitAnd(x, y)

\* x ^ y on u8
BitXor(x, y) == x + y - 2 * BitAnd(x, y)

\* !x on u8
BitNot(x) == 255 - x

\* u8 wrapping_add / wrapping_sub
WrapAdd8(x, y) == (x + y) % 256
WrapSub8(x, y) == (x - y + 256) % 256

\* u16 wrapping_add
WrapAdd16(x, y) == (x + y) % 65536

(***************************************************************************)
(* macros.rs                                                               *)
(***************************************************************************)
set_bits_u8(x, bit) == BitOr(x, bit)
clear_bits_u8(x, bit) == BitAnd(x, BitNot(bit))
toggle_bits_u8(x, bit) == BitXor(x, bit)
check_bits_u8(x, bit) == BitAnd(x, bit) = bit

(***************************************************************************)
(* mmu.rs: MemStateMask, LCRAMMODEMASK, LcRamMode                          *)
(***************************************************************************)
MemStateMask_INIT == 32
MemStateMask_ALTZP == 1
MemStateMask_P280STORE == 2
MemStateMask_RAMRD == 4
MemStateMask_RAMWRT == 8
MemStateMask_LCRAM == 16
MemStateMask_RDBNK == 32
MemStateMask_WRITE == 64
MemStateMask_ALTROM == 128

LCRAMMODEMASK == 112

LcRamMode_C080 == BitOr(MemStateMask_RDBNK, MemStateMask_LCRAM)
LcRamMode_C081 == BitOr(MemStateMask_RDBNK, MemStateMask_WRITE)
LcRamMode_C082 == MemStateMask_RDBNK
LcRamMode_C083 == BitOr(BitOr(MemStateMask_RDBNK, MemStateMask_LCRAM), MemStateMask_WRITE)
LcRamMode_C088 == MemStateMask_LCRAM
LcRamMode_C089 == MemStateMask_WRITE
LcRamMode_C08A == 0
LcRamMode_C08B == BitOr(MemStateMask_LCRAM, MemStateMask_WRITE)
LcRamMode_C08C == MemStateMask_LCRAM
LcRamMode_C08D == MemStateMask_WRITE
LcRamMode_C08E == 0
LcRamMode_C08F == BitOr(MemStateMask_LCRAM, MemStateMask_WRITE)

(***************************************************************************)
(* video.rs: VideoModeMask, VideoMode                                      *)
(***************************************************************************)
VideoModeMask_TEXT == 1
VideoModeMask_LORES == 2
VideoModeMask_HIRES == 4
VideoModeMask_DHIRES == 8
VideoModeMask_MIXED == 16
VideoModeMask_PAGE2 == 32
VideoModeMask_COL80 == 64
VideoModeMask_ALTCHAR == 128

VideoMode_TEXT == VideoModeMask_TEXT

(***************************************************************************)
(* iou.rs                                                                  *)
(* An IOU value is a record with the fields of struct IOU.  Every          *)
(* soft-switch access yields the new IOU value and the byte returned.      *)
(***************************************************************************)
IOU_new ==
    [ mem_state  |-> MemStateMask_INIT,
      c081_rr    |-> <<0, 0>>,
      c083_rr    |-> <<0, 0>>,
      c089_rr    |-> <<0, 0>>,
      c08b_rr    |-> <<0, 0>>,
      c08d_rr    |-> <<0, 0>>,
      c08f_rr    |-> <<0, 0>>,
      is_80store |-> FALSE,
      ioudis     |-> FALSE,
      video_mode |-> VideoMode_TEXT,
      last_key   |-> 0,
      key_ready  |-> FALSE ]

\* result of a soft-switch access: the IOU afterwards, the byte returned, and
\* whether a u8 addition overflowed on the way.  Where it did, a build with
\* overflow checks (the dev profile) panics at the addition, before anything
\* is stored, and a build without them goes on with the wrapped value, which
\* is the IOU given here.
SS(s, v) == [iou |-> s, val |-> v, overflow |-> FALSE]

\* (flag as u8) << 7
Bit7(flag) == IF flag THEN 128 ELSE 0

\* set_lcram_mode! storing the mode without the mask: the other bits are lost
set_lcram_mode_unmasked(s, mode) ==
    SS([s EXCEPT !.mem_state = mode], 0)

\* macro set_lcram_mode!(mem_state, mode)
set_lcram_mode(s, mode) ==
    LET current == s.mem_state
    IN SS([s EXCEPT !.mem_state =
               BitOr(BitAnd(current, BitNot(LCRAMMODEMASK)), BitAnd(mode, LCRAMMODEMASK))],
          0)

\* set_lcram_mode_rr! committing on every read (new_count >= 1)
set_lcram_mode_rr_first(s, mode, addr, counter) ==
    LET last_addr == s[counter][1]
        count     == s[counter][2]
        new_count == IF last_addr = addr THEN (count + 1) % 256 ELSE 1
        s1        == [s EXCEPT ![counter] = <<addr, new_count>>]
    IN [SS([s1 EXCEPT !.mem_state =
                BitOr(BitAnd(s1.mem_state, BitNot(LCRAMMODEMASK)),
                      BitAnd(mode, LCRAMMODEMASK))],
           0)
        EXCEPT !.overflow = (last_addr = addr /\ count = 255)]

\* macro set_lcram_mode_rr!(mem_state, mode, addr, counter); the counter is
\* named by its field.  count is a u8 and count + 1 overflows at 255: the
\* result has overflow set and carries the IOU of the build without overflow
\* checks, where count + 1 is 0; the build with them panics at the addition
\* and stores nothing.
set_lcram_mode_rr(s, mode, addr, counter) ==
    LET last_addr == s[counter][1]
        count     == s[counter][2]
        overflow  == last_addr = addr /\ count = 255
        new_count == IF last_addr = addr THEN (count + 1) % 256 ELSE 1
        s1        == [s EXCEPT ![counter] = <<addr, new_count>>]
    IN IF new_count >= 2
       THEN LET current == s1.mem_state
            IN [SS([s1 EXCEPT !.mem_state =
                        BitOr(BitAnd(current, BitNot(LCRAMMODEMASK)),
                              BitAnd(mode, LCRAMMODEMASK))],
                   0)
                EXCEPT !.overflow = overflow]
       ELSE [SS(s1, 0) EXCEPT !.overflow = overflow]

\* macros set_bits_cell! / clear_bits_cell! / toggle_bits_cell! on a Cell<u8>
\* field: they store the new value and return it
set_bits_cell(s, field, bit) ==
    LET v == set_bits_u8(s[field], bit) IN SS([s EXCEPT ![field] = v], v)
\* clear_bits_cell! leaving the field as it is
clear_bits_cell_keep(s, field, bit) == SS(s, s[field])
clear_bits_cell(s, field, bit) ==
    LET v == clear_bits_u8(s[field], bit) IN SS([s EXCEPT ![field] = v], v)
toggle_bits_cell(s, field, bit) ==
    LET v == toggle_bits_u8(s[field], bit) IN SS([s EXCEPT ![field] = v], v)
check_bits_cell(s, field, bit) == check_bits_u8(s[field], bit)

\* the addresses the six read-twice counters belong to
RRAddrs == {\hC081, \hC083, \hC089, \hC08B, \hC08D, \hC08F}

\* the counter field of a read-twice address
RRCounter(addr) ==
    CASE addr = \hC081 -> "c081_rr"
      [] addr = \hC083 -> "c083_rr"
      [] addr = \hC089 -> "c089_rr"
      [] addr = \hC08B -> "c08b_rr"
      [] addr = \hC08D -> "c08d_rr"
      [] addr = \hC08F -> "c08f_rr"

\* the LC mode constant of a $C08x address (the match arms of ss_read/ss_write)
LCAddrs == {\hC080, \hC081, \hC082, \hC083} \cup (\hC088 .. \hC08F)

LcRamModeOf(addr) ==
    CASE addr = \hC080 -> LcRamMode_C080
      [] addr = \hC081 -> LcRamMode_C081
      [] addr = \hC082 -> LcRamMode_C082
      [] addr = \hC083 -> LcRamMode_C083
      [] addr = \hC088 -> LcRamMode_C088
      [] addr = \hC089 -> LcRamMode_C089
      [] addr = \hC08A -> LcRamMode_C08A
      [] addr = \hC08B -> LcRamMode_C08B
      [] addr = \hC08C -> LcRamMode_C08C
      [] addr = \hC08D -> LcRamMode_C08D
      [] addr = \hC08E -> LcRamMode_C08E
      [] addr = \hC08F -> LcRamMode_C08F

\* IOU::ss_read
ss_read(s, addr) ==
    CASE addr = \hC018 -> SS(s, Bit7(s.is_80store))
      [] addr = \hC07E -> SS(s, Bit7(s.ioudis))
      [] addr = \hC07F -> SS(s, Bit7(check_bits_cell(s, "video_mode", VideoModeMask_DHIRES)))
      [] addr \in RRAddrs ->
            set_lcram_mode_rr(s, LcRamModeOf(addr), addr, RRCounter(addr))
      [] addr \in LCAddrs \ RRAddrs -> set_lcram_mode(s, LcRamModeOf(addr))
      [] addr = \hC011 -> SS(s, Bit7(check_bits_cell(s, "mem_state", MemStateMask_RDBNK)))
      [] addr = \hC012 -> SS(s, Bit7(check_bits_cell(s, "mem_state", MemStateMask_LCRAM)))
      [] addr = \hC013 -> SS(s, Bit7(check_bits_cell(s, "mem_state", MemStateMask_RAMRD)))
      [] addr = \hC014 -> SS(s, Bit7(check_bits_cell(s, "mem_state", MemStateMask_RAMWRT)))
      [] addr = \hC016 -> SS(s, Bit7(check_bits_cell(s, "mem_state", MemStateMask_ALTZP)))
      [] addr = \hC01A -> SS(s, Bit7(check_bits_cell(s, "video_mode", VideoModeMask_TEXT)))
      [] addr = \hC01B -> SS(s, Bit7(check_bits_cell(s, "video_mode", VideoModeMask_MIXED)))
      [] addr = \hC01C -> SS(s, Bit7(check_bits_cell(s, "video_mode", VideoModeMask_PAGE2)))
      [] addr = \hC01D -> SS(s, Bit7(check_bits_cell(s, "video_mode", VideoModeMask_HIRES)))
      [] addr = \hC01E -> SS(s, Bit7(check_bits_cell(s, "video_mode", VideoModeMask_ALTCHAR)))
      [] addr = \hC01F -> SS(s, Bit7(check_bits_cell(s, "video_mode", VideoModeMask_COL80)))
      [] addr = \hC050 -> clear_bits_cell(s, "video_mode", VideoModeMask_TEXT)
      [] addr = \hC051 -> set_bits_cell(s, "video_mode", VideoModeMask_TEXT)
      [] addr = \hC052 -> clear_bits_cell(s, "video_mode", VideoModeMask_MIXED)
      [] addr = \hC053 -> set_bits_cell(s, "video_mode", VideoModeMask_MIXED)
      [] addr = \hC054 -> clear_bits_cell(s, "video_mode", VideoModeMask_PAGE2)
      [] addr = \hC055 -> set_bits_cell(s, "video_mode", VideoModeMask_PAGE2)
      [] addr = \hC056 ->
            set_bits_cell(
                clear_bits_cell(s, "video_mode",
                                BitOr(VideoModeMask_HIRES, VideoModeMask_DHIRES)).iou,
                "video_mode", VideoModeMask_LORES)
      [] addr = \hC057 ->
            set_bits_cell(
                clear_bits_cell(s, "video_mode", VideoModeMask_LORES).iou,
                "video_mode", VideoModeMask_HIRES)
      [] addr = \hC05E ->
            IF s.ioudis THEN SS(s, 0)
            ELSE set_bits_cell(s, "video_mode", VideoModeMask_DHIRES)
      [] addr = \hC05F ->
            IF s.ioudis THEN SS(s, 0)
            ELSE clear_bits_cell(s, "video_mode", VideoModeMask_DHIRES)
      [] addr = \hC060 -> SS(s, Bit7(check_bits_cell(s, "video_mode", VideoModeMask_COL80)))
      \* the stubbed switches and the unhandled addresses return 0
      [] OTHER -> SS(s, 0)

\* IOU::ss_write
ss_write(s, addr) ==
    CASE addr = \hC000 -> SS([s EXCEPT !.is_80store = FALSE], 0)
      [] addr = \hC001 -> SS([s EXCEPT !.is_80store = TRUE], 0)
      [] addr = \hC00C -> clear_bits_cell(s, "video_mode", VideoModeMask_COL80)
      [] addr = \hC00D -> set_bits_cell(s, "video_mode", VideoModeMask_COL80)
      [] addr = \hC00E -> clear_bits_cell(s, "video_mode", VideoModeMask_ALTCHAR)
      [] addr = \hC00F -> set_bits_cell(s, "video_mode", VideoModeMask_ALTCHAR)
      [] addr \in LCAddrs -> set_lcram_mode(s, LcRamModeOf(addr))
      [] addr = \hC07E -> SS([s EXCEPT !.ioudis = FALSE], 0)
      [] addr = \hC07F -> SS([s EXCEPT !.ioudis = TRUE], 0)
      [] addr = \hC008 -> clear_bits_cell(s, "mem_state", MemStateMask_ALTZP)
      [] addr = \hC009 -> set_bits_cell(s, "mem_state", MemStateMask_ALTZP)
      [] addr = \hC002 -> clear_bits_cell(s, "mem_state", MemStateMask_RAMRD)
      [] addr = \hC003 -> set_bits_cell(s, "mem_state", MemStateMask_RAMRD)
      [] addr = \hC004 -> clear_bits_cell(s, "mem_state", MemStateMask_RAMWRT)
      [] addr = \hC005 -> set_bits_cell(s, "mem_state", MemStateMask_RAMWRT)
      [] addr = \hC028 -> toggle_bits_cell(s, "mem_state", MemStateMask_ALTROM)
      [] addr = \hC050 -> clear_bits_cell(s, "video_mode", VideoModeMask_TEXT)
      [] addr = \hC051 -> set_bits_cell(s, "video_mode", VideoModeMask_TEXT)
      [] addr = \hC052 -> clear_bits_cell(s, "video_mode", VideoModeMask_MIXED)
      [] addr = \hC053 -> set_bits_cell(s, "video_mode", VideoModeMask_MIXED)
      [] addr = \hC054 -> clear_bits_cell(s, "video_mode", VideoModeMask_PAGE2)
      [] addr = \hC055 -> set_bits_cell(s, "video_mode", VideoModeMask_PAGE2)
      [] addr = \hC056 ->
            set_bits_cell(
                clear_bits_cell(s, "video_mode",
                                BitOr(VideoModeMask_HIRES, VideoModeMask_DHIRES)).iou,
                "video_mode", VideoModeMask_LORES)
      [] addr = \hC057 ->
            set_bits_cell(
                clear_bits_cell(s, "video_mode", VideoModeMask_LORES).iou,
                "video_mode", VideoModeMask_HIRES)
      [] addr = \hC078 -> SS([s EXCEPT !.ioudis = TRUE], 0)
      [] addr = \hC079 -> SS([s EXCEPT !.ioudis = FALSE], 0)
      [] addr = \hC05E ->
            IF s.ioudis THEN SS(s, 0)
            ELSE set_bits_cell(s, "video_mode", VideoModeMask_DHIRES)
      [] addr = \hC05F ->
            IF s.ioudis THEN SS(s, 0)
            ELSE clear_bits_cell(s, "video_mode", VideoModeMask_DHIRES)
      \* the stubbed switches and the unhandled addresses return 0
      [] OTHER -> SS(s, 0)

(***************************************************************************)
(* interrupts.rs                                                           *)
(* An InterruptController value is a record with the fields of the struct. *)
(***************************************************************************)
\* InterruptController::default()
InterruptController_default ==
    [ nmi |-> FALSE, irq |-> FALSE, brk |-> FALSE, reset |-> FALSE,
      waiting |-> FALSE, halted |-> FALSE ]

request_nmi(ic) == [ic EXCEPT !.nmi = TRUE, !.waiting = FALSE]
\* request_irq leaving the wait state as it is
request_irq_keep_wait(ic) == [ic EXCEPT !.irq = TRUE]

request_irq(ic) == [ic EXCEPT !.irq = TRUE, !.waiting = FALSE]
request_brk(ic) == [ic EXCEPT !.brk = TRUE]
enter_wait(ic) == [ic EXCEPT !.waiting = TRUE]
leave_wait(ic) == [ic EXCEPT !.waiting = FALSE]

\* enter_halt entering the wait state instead
enter_halt_waiting(ic) == [ic EXCEPT !.waiting = TRUE]

enter_halt(ic) == [ic EXCEPT !.halted = TRUE]
leave_halt(ic) == [ic EXCEPT !.halted = FALSE]
clear_all(ic) ==
    [ic EXCEPT !.nmi = FALSE, !.irq = FALSE, !.brk = FALSE, !.reset = FALSE]

\* Option::None of handle_interrupt_with_vectors; Some((kind, vector)) is <<kind, vector>>
NoInterrupt == <<"None", 0>>

\* handle_interrupt_with_vectors polling IRQ before BRK
handle_interrupt_with_vectors_irq_first(ic, nmi_vector, reset_vector, irq_vector) ==
    IF ic.halted THEN [ic |-> ic, ret |-> NoInterrupt]
    ELSE IF ic.nmi THEN [ic |-> ic, ret |-> <<"NMI", nmi_vector>>]
    ELSE IF ic.reset
         THEN [ic |-> [ic EXCEPT !.reset = FALSE], ret |-> <<"RST", reset_vector>>]
    ELSE IF ic.irq THEN [ic |-> ic, ret |-> <<"IRQ", irq_vector>>]
    ELSE IF ic.brk
         THEN [ic |-> [ic EXCEPT !.brk = FALSE], ret |-> <<"BRK", irq_vector>>]
    ELSE [ic |-> ic, ret |-> NoInterrupt]

\* handle_interrupt_with_vectors clearing the flag of every winner
handle_interrupt_with_vectors_clear_all(ic, nmi_vector, reset_vector, irq_vector) ==
    IF ic.halted THEN [ic |-> ic, ret |-> NoInterrupt]
    ELSE IF ic.nmi
         THEN [ic |-> [ic EXCEPT !.nmi = FALSE], ret |-> <<"NMI", nmi_vector>>]
    ELSE IF ic.reset
         THEN [ic |-> [ic EXCEPT !.reset = FALSE], ret |-> <<"RST", reset_vector>>]
    ELSE IF ic.brk
         THEN [ic |-> [ic EXCEPT !.brk = FALSE], ret |-> <<"BRK", irq_vector>>]
    ELSE IF ic.irq
         THEN [ic |-> [ic EXCEPT !.irq = FALSE], ret |-> <<"IRQ", irq_vector>>]
    ELSE [ic |-> ic, ret |-> NoInterrupt]

\* handle_interrupt_with_vectors clearing irq when IRQ wins, as it does for BRK
handle_interrupt_with_vectors_clear_irq(ic, nmi_vector, reset_vector, irq_vector) ==
    IF ic.halted THEN [ic |-> ic, ret |-> NoInterrupt]
    ELSE IF ic.nmi THEN [ic |-> ic, ret |-> <<"NMI", nmi_vector>>]
    ELSE IF ic.reset
         THEN [ic |-> [ic EXCEPT !.reset = FALSE], ret |-> <<"RST", reset_vector>>]
    ELSE IF ic.brk
         THEN [ic |-> [ic EXCEPT !.brk = FALSE], ret |-> <<"BRK", irq_vector>>]
    ELSE IF ic.irq
         THEN [ic |-> [ic EXCEPT !.irq = FALSE], ret |-> <<"IRQ", irq_vector>>]
    ELSE [ic |-> ic, ret |-> NoInterrupt]

\* InterruptController::handle_interrupt_with_vectors: the controller afterwards
\* and the value returned
handle_interrupt_with_vectors(ic, nmi_vector, reset_vector, irq_vector) ==
    IF ic.halted THEN [ic |-> ic, ret |-> NoInterrupt]
    ELSE IF ic.nmi THEN [ic |-> ic, ret |-> <<"NMI", nmi_vector>>]
    ELSE IF ic.reset
         THEN [ic |-> [ic EXCEPT !.reset = FALSE], ret |-> <<"RST", reset_vector>>]
    ELSE IF ic.brk
         THEN [ic |-> [ic EXCEPT !.brk = FALSE], ret |-> <<"BRK", irq_vector>>]
    ELSE IF ic.irq THEN [ic |-> ic, ret |-> <<"IRQ", irq_vector>>]
    ELSE [ic |-> ic, ret |-> NoInterrupt]

(***************************************************************************)
(* memory.rs                                                               *)
(* A Memory is zero-filled at construction.  It is kept as the function    *)
(* from the addresses holding a non-zero byte to that byte.                *)
(***************************************************************************)
Memory_new == <<>>

\* Memory::read_byte
Memory_read_byte(data, addr) == IF addr \in DOMAIN data THEN data[addr] ELSE 0

\* Memory::write_byte
Memory_write_byte(data, addr, value) ==
    IF value = 0
    THEN [a \in DOMAIN data \ {addr} |-> data[a]]
    ELSE [a \in DOMAIN data \cup {addr} |-> IF a = addr THEN value ELSE data[a]]

(***************************************************************************)
(* mmu.rs                                                                  *)
(* The banks of an MMU are indexed as in the source: rom 0..1, ram 0..1    *)
(* (main, aux) and lcram 0..3 (main1, main2, aux1, aux2).                  *)
(***************************************************************************)
ROM_SIZE == 16 * 1024

\* bool as usize
AsUsize(flag) == IF flag THEN 1 ELSE 0

\* MMU::new
MMU_new ==
    [ rom   |-> [i \in 0 .. 1 |-> Memory_new],
      ram   |-> [i \in 0 .. 1 |-> Memory_new],
      lcram |-> [i \in 0 .. 3 |-> Memory_new] ]

\* Memory::load_bytes(0, &data[start .. start + ROM_SIZE]) on a ROM bank: the
\* whole bank is overwritten by the slice
RomBank(data, start) ==
    [a \in {x - start : x \in {y \in DOMAIN data : y >= start /\ y < start + ROM_SIZE}}
        |-> data[a + start]]

\* MMU::load_rom filling both banks from the first 16 KiB of the image
MMU_load_rom_first_bank(mmu, data) ==
    [mmu EXCEPT !.rom = [i \in 0 .. 1 |-> RomBank(data, 0)]]

\* MMU::load_rom, rom.data given like a Memory by its non-zero bytes
MMU_load_rom(mmu, data) ==
    [mmu EXCEPT !.rom = [i \in 0 .. 1 |-> RomBank(data, i * ROM_SIZE)]]

\* the pattern 0x0400..=0x07FF | 0x2000..=0x3FFF of read_byte and write_byte
InDisplay(addr) ==
    \/ addr >= \h0400 /\ addr <= \h07FF
    \/ addr >= \h2000 /\ addr <= \h3FFF

\* MMU::read_byte taking the $D000 offset as the $C100 arm does
MMU_read_byte_d000_c100(mmu, s, addr) ==
    LET mem_state  == s.mem_state
        is_page2   == check_bits_u8(s.video_mode, VideoModeMask_PAGE2)
        is_80store == s.is_80store
        altzp      == AsUsize(check_bits_u8(mem_state, MemStateMask_ALTZP))
        altrom     == AsUsize(check_bits_u8(mem_state, MemStateMask_ALTROM))
        lcram      == AsUsize(check_bits_u8(mem_state, MemStateMask_LCRAM))
        bank       == AsUsize(check_bits_u8(mem_state, MemStateMask_RDBNK))
        ramrd      == AsUsize(check_bits_u8(mem_state, MemStateMask_RAMRD))
    IN IF addr <= \h01FF THEN Memory_read_byte(mmu.ram[altzp], addr)
       ELSE IF InDisplay(addr) /\ is_80store
            THEN Memory_read_byte(mmu.ram[AsUsize(is_page2)], addr)
       ELSE IF addr >= \h0200 /\ addr <= \hBFFF THEN Memory_read_byte(mmu.ram[ramrd], addr)
       ELSE IF addr >= \hC100 /\ addr <= \hCFFF
            THEN IF lcram = 1
                 THEN Memory_read_byte(mmu.lcram[bank + 2 * ramrd], addr - \hC100)
                 ELSE Memory_read_byte(mmu.rom[altrom], addr - \hC000)
       ELSE IF addr >= \hD000 /\ addr <= \hDFFF
            THEN IF lcram = 1
                 THEN Memory_read_byte(mmu.lcram[bank + 2 * ramrd], addr - \hC100)
                 ELSE Memory_read_byte(mmu.rom[altrom], addr - \hC000)
       ELSE IF addr >= \hE000
            THEN IF lcram = 1
                 THEN Memory_read_byte(mmu.ram[altzp], addr)
                 ELSE Memory_read_byte(mmu.rom[altrom], addr - \hC000)
       ELSE 0

\* MMU::read_byte; the bus never hands it an address in $C000-$C0FF
MMU_read_byte(mmu, s, addr) ==
    LET mem_state  == s.mem_state
        is_page2   == check_bits_u8(s.video_mode, VideoModeMask_PAGE2)
        is_80store == s.is_80store
        altzp      == AsUsize(check_bits_u8(mem_state, MemStateMask_ALTZP))
        altrom     == AsUsize(check_bits_u8(mem_state, MemStateMask_ALTROM))
        lcram      == AsUsize(check_bits_u8(mem_state, MemStateMask_LCRAM))
        bank       == AsUsize(check_bits_u8(mem_state, MemStateMask_RDBNK))
        ramrd      == AsUsize(check_bits_u8(mem_state, MemStateMask_RAMRD))
    IN IF addr <= \h01FF THEN Memory_read_byte(mmu.ram[altzp], addr)
       ELSE IF InDisplay(addr) /\ is_80store
            THEN Memory_read_byte(mmu.ram[AsUsize(is_page2)], addr)
       ELSE IF addr >= \h0200 /\ addr <= \hBFFF THEN Memory_read_byte(mmu.ram[ramrd], addr)
       ELSE IF addr >= \hC100 /\ addr <= \hCFFF
            THEN IF lcram = 1
                 THEN Memory_read_byte(mmu.lcram[bank + 2 * ramrd], addr - \hC100)
                 ELSE Memory_read_byte(mmu.rom[altrom], addr - \hC000)
       ELSE IF addr >= \hD000 /\ addr <= \hDFFF
            THEN IF lcram = 1
                 THEN Memory_read_byte(mmu.lcram[bank + 2 * ramrd], addr - \hD000)
                 ELSE Memory_read_byte(mmu.rom[altrom], addr - \hC000)
       ELSE IF addr >= \hE000
            THEN IF lcram = 1
                 THEN Memory_read_byte(mmu.ram[altzp], addr)
                 ELSE Memory_read_byte(mmu.rom[altrom], addr - \hC000)
       ELSE 0

\* maybe_write_byte! writing whatever write is
maybe_write_byte_always(write, banks, bank, addr, value) ==
    [banks EXCEPT ![bank] = Memory_write_byte(@, addr, value)]

\* macro maybe_write_byte!(write, ram, bank, addr, value) on an array of banks
maybe_write_byte(write, banks, bank, addr, value) ==
    IF write = 1
    THEN [banks EXCEPT ![bank] = Memory_write_byte(@, addr, value)]
    ELSE banks

\* MMU::write_byte writing page 0 and page 1 to main RAM whatever ALTZP is
MMU_write_byte_zp_main(mmu, addr, value, mem_state, is_80store, is_page2) ==
    LET altzp  == AsUsize(check_bits_u8(mem_state, MemStateMask_ALTZP))
        bank   == AsUsize(check_bits_u8(mem_state, MemStateMask_RDBNK))
        ramwrt == AsUsize(check_bits_u8(mem_state, MemStateMask_RAMWRT))
        write  == AsUsize(check_bits_u8(mem_state, MemStateMask_WRITE))
    IN IF addr <= \h01FF
       THEN [mmu EXCEPT !.ram[0] = Memory_write_byte(@, addr, value)]
       ELSE IF InDisplay(addr) /\ is_80store
            THEN [mmu EXCEPT !.ram[AsUsize(is_page2)] = Memory_write_byte(@, addr, value)]
       ELSE IF addr >= \h0200 /\ addr <= \hBFFF
            THEN [mmu EXCEPT !.ram[ramwrt] = Memory_write_byte(@, addr, value)]
       ELSE IF addr >= \hC100 /\ addr <= \hCFFF
            THEN [mmu EXCEPT !.lcram =
                      maybe_write_byte(write, @, bank + 2 * ramwrt, addr - \hC100, value)]
       ELSE IF addr >= \hD000 /\ addr <= \hDFFF
            THEN [mmu EXCEPT !.lcram =
                      maybe_write_byte(write, @, bank + 2 * ramwrt, addr - \hD000, value)]
       ELSE IF addr >= \hE000
            THEN [mmu EXCEPT !.ram = maybe_write_byte(write, @, altzp, addr, value)]
       ELSE mmu

\* MMU::write_byte; the bus never hands it an address in $C000-$C0FF
MMU_write_byte(mmu, addr, value, mem_state, is_80store, is_page2) ==
    LET altzp  == AsUsize(check_bits_u8(mem_state, MemStateMask_ALTZP))
        bank   == AsUsize(check_bits_u8(mem_state, MemStateMask_RDBNK))
        ramwrt == AsUsize(check_bits_u8(mem_state, MemStateMask_RAMWRT))
        write  == AsUsize(check_bits_u8(mem_state, MemStateMask_WRITE))
    IN IF addr <= \h01FF
       THEN [mmu EXCEPT !.ram[altzp] = Memory_write_byte(@, addr, value)]
       ELSE IF InDisplay(addr) /\ is_80store
            THEN [mmu EXCEPT !.ram[AsUsize(is_page2)] = Memory_write_byte(@, addr, value)]
       ELSE IF addr >= \h0200 /\ addr <= \hBFFF
            THEN [mmu EXCEPT !.ram[ramwrt] = Memory_write_byte(@, addr, value)]
       ELSE IF addr >= \hC100 /\ addr <= \hCFFF
            THEN [mmu EXCEPT !.lcram =
                      maybe_write_byte(write, @, bank + 2 * ramwrt, addr - \hC100, value)]
       ELSE IF addr >= \hD000 /\ addr <= \hDFFF
            THEN [mmu EXCEPT !.lcram =
                      maybe_write_byte(write, @, bank + 2 * ramwrt, addr - \hD000, value)]
       ELSE IF addr >= \hE000
            THEN [mmu EXCEPT !.ram = maybe_write_byte(write, @, altzp, addr, value)]
       ELSE mmu

(***************************************************************************)
(* cpu.rs: Flags                                                           *)
(***************************************************************************)
Flags_CARRY == 1
Flags_ZERO == 2
Flags_IRQ_DISABLE == 4
Flags_DECIMAL == 8
Flags_BREAK == 16
Flags_UNUSED == 32
Flags_OVERFLOW == 64
Flags_NEGATIVE == 128

\* Flags::contains / insert / remove / set
Flags_contains(p, flag) == BitAnd(p, flag) = flag
Flags_insert(p, flag) == BitOr(p, flag)
Flags_remove(p, flag) == BitAnd(p, BitNot(flag))
Flags_set(p, flag, value) == IF value THEN Flags_insert(p, flag) ELSE Flags_remove(p, flag)

CpuTypes == {"NMOS6502", "CMOS65C02", "WDC65C02S"}

(***************************************************************************)
(* bus.rs on the Generic target.  A machine m is the record of the CPU     *)
(* registers (m.cpu), the interrupt controller (m.interrupts), the flat    *)
(* RAM (m.bus_ram) and the feedback register (m.i_port).                   *)
(***************************************************************************)
\* Bus::read_byte, system_type Generic
Bus_read_byte(m, addr) == Memory_read_byte(m.bus_ram, addr)

\* Bus::read_word
Bus_read_word(m, addr) ==
    LET lo == Bus_read_byte(m, addr)
        hi == Bus_read_byte(m, WrapAdd16(addr, 1))
    IN hi * 256 + lo

\* Bus::write_byte taking the IRQ request from bit 1 and the NMI request from
\* bit 0
Bus_write_byte_swapped(m, addr, value) ==
    IF addr = \hBFFC
    THEN LET irq_triggered == BitAnd(value, 2) # 0
             nmi_triggered == BitAnd(value, 1) # 0
             ic1 == IF irq_triggered THEN request_irq(m.interrupts) ELSE m.interrupts
             ic2 == IF nmi_triggered THEN request_nmi(ic1) ELSE ic1
         IN [m EXCEPT !.i_port = value, !.interrupts = ic2]
    ELSE [m EXCEPT !.bus_ram = Memory_write_byte(m.bus_ram, addr, value)]

\* Bus::write_byte, system_type Generic
Bus_write_byte(m, addr, value) ==
    IF addr = \hBFFC
    THEN LET irq_triggered == BitAnd(value, 1) # 0
             nmi_triggered == BitAnd(value, 2) # 0
             ic1 == IF irq_triggered THEN request_irq(m.interrupts) ELSE m.interrupts
             ic2 == IF nmi_triggered THEN request_nmi(ic1) ELSE ic1
         IN [m EXCEPT !.i_port = value, !.interrupts = ic2]
    ELSE [m EXCEPT !.bus_ram = Memory_write_byte(m.bus_ram, addr, value)]

(***************************************************************************)
(* cpu.rs: stack, fetch, interrupt sequence                                *)
(***************************************************************************)
\* push_stack decrementing SP without wrapping at $00
push_stack_nowrap(m, value) ==
    LET m1 == Bus_write_byte(m, 256 + m.cpu.sp, value)
    IN [m1 EXCEPT !.cpu.sp = IF m.cpu.sp = 0 THEN 0 ELSE m.cpu.sp - 1]

\* CPU::push_stack
push_stack(m, value) ==
    LET m1 == Bus_write_byte(m, 256 + m.cpu.sp, value)
    IN [m1 EXCEPT !.cpu.sp = WrapSub8(m.cpu.sp, 1)]

\* pop_stack incrementing SP without wrapping at $FF
pop_stack_nowrap(m) ==
    LET sp1 == m.cpu.sp + 1
    IN [m |-> [m EXCEPT !.cpu.sp = sp1], val |-> Bus_read_byte(m, 256 + sp1)]

\* CPU::pop_stack: the machine afterwards and the byte popped
pop_stack(m) ==
    LET sp1 == WrapAdd8(m.cpu.sp, 1)
    IN [m |-> [m EXCEPT !.cpu.sp = sp1], val |-> Bus_read_byte(m, 256 + sp1)]

\* CPU::fetch_byte: the machine afterwards and the byte fetched
fetch_byte(m) ==
    [m |-> [m EXCEPT !.cpu.pc = WrapAdd16(m.cpu.pc, 1)],
     val |-> Bus_read_byte(m, m.cpu.pc)]

\* CPU::fetch_word
fetch_word(m) ==
    LET lo == fetch_byte(m)
        hi == fetch_byte(lo.m)
    IN [m |-> hi.m, val |-> hi.val * 256 + lo.val]

\* CPU::update_zero_and_negative_flags
update_zero_and_negative_flags(m, value) ==
    [m EXCEPT !.cpu.p = Flags_set(Flags_set(m.cpu.p, Flags_ZERO, value = 0),
                                  Flags_NEGATIVE, BitAnd(value, 128) # 0)]

\* the return address pushed, with a BRK on the NMOS variant pushing PC+2
handle_interrupt_pushed_pc_nmos(m, interrupt_type) ==
    IF interrupt_type = "BRK"
    THEN IF m.cpu.cpu_type = "NMOS6502"
         THEN WrapAdd16(m.cpu.pc, 2)
         ELSE WrapAdd16(m.cpu.pc, 1)
    ELSE m.cpu.pc

\* CPU::handle_interrupt, pushed_pc: the return address pushed (both arms of
\* the match on cpu_type are pc.wrapping_add(1))
handle_interrupt_pushed_pc(m, interrupt_type) ==
    IF interrupt_type = "BRK"
    THEN WrapAdd16(m.cpu.pc, 1)
    ELSE m.cpu.pc

\* the two pushes of pushed_pc made low byte first
handle_interrupt_push_pc_low_first(m, pushed_pc) ==
    push_stack(push_stack(m, pushed_pc % 256), pushed_pc \div 256)

\* CPU::handle_interrupt, the two pushes of pushed_pc, high byte first
handle_interrupt_push_pc(m, pushed_pc) ==
    push_stack(push_stack(m, pushed_pc \div 256), pushed_pc % 256)

\* CPU::handle_interrupt, the push of P with U set and B set for BRK only
handle_interrupt_push_p(m, interrupt_type) ==
    push_stack(m, Flags_set(Flags_insert(m.cpu.p, Flags_UNUSED),
                            Flags_BREAK, interrupt_type = "BRK"))

\* CPU::handle_interrupt after the three pushes: I set, B cleared, D cleared on
\* the CMOS variants, PC at the target, the pending flag of IRQ and NMI cleared,
\* wait left; true is returned for BRK only
handle_interrupt_enter(m, interrupt_type, target_pc) ==
    LET p1 == Flags_remove(Flags_insert(m.cpu.p, Flags_IRQ_DISABLE), Flags_BREAK)
        ic == IF interrupt_type = "IRQ" THEN [m.interrupts EXCEPT !.irq = FALSE]
              ELSE IF interrupt_type = "NMI" THEN [m.interrupts EXCEPT !.nmi = FALSE]
              ELSE m.interrupts
    IN [m |-> [m EXCEPT !.cpu.p = IF m.cpu.cpu_type # "NMOS6502"
                                  THEN Flags_remove(p1, Flags_DECIMAL)
                                  ELSE p1,
                        !.cpu.pc = target_pc,
                        !.interrupts = leave_wait(ic)],
        ret |-> interrupt_type \notin {"IRQ", "NMI"},
        kind |-> interrupt_type,
        serviced |-> TRUE]

\* CPU::handle_interrupt once the controller has returned a source
handle_interrupt_service(m, interrupt_type, target_pc) ==
    IF Flags_contains(m.cpu.p, Flags_IRQ_DISABLE) /\ interrupt_type = "IRQ"
    THEN [m |-> m, ret |-> FALSE, kind |-> "IRQ", serviced |-> FALSE]
    ELSE IF interrupt_type = "RST"
    THEN [m |-> [m EXCEPT !.cpu.pc = target_pc], ret |-> TRUE, kind |-> "RST",
          serviced |-> TRUE]
    ELSE handle_interrupt_enter(
             handle_interrupt_push_p(
                 handle_interrupt_push_pc(m, handle_interrupt_pushed_pc(m, interrupt_type)),
                 interrupt_type),
             interrupt_type, target_pc)

\* CPU::handle_interrupt given what handle_interrupt_with_vectors returned
handle_interrupt_polled(m, polled) ==
    IF polled.ret = NoInterrupt
    THEN [m |-> [m EXCEPT !.interrupts = polled.ic], ret |-> FALSE, kind |-> "None",
          serviced |-> FALSE]
    ELSE handle_interrupt_service([m EXCEPT !.interrupts = polled.ic],
                                  polled.ret[1], polled.ret[2])

\* CPU::handle_interrupt: the machine afterwards, the value returned, the
\* source the controller selected and whether its sequence was carried out
handle_interrupt(m) ==
    handle_interrupt_polled(m,
        handle_interrupt_with_vectors(m.interrupts,
                                      Bus_read_word(m, \hFFFA),
                                      Bus_read_word(m, \hFFFC),
                                      Bus_read_word(m, \hFFFE)))

(***************************************************************************)
(* cpu.rs: adc, sbc, compare, (zp),Y addressing                            *)
(***************************************************************************)
\* CPU::adc up to the flag updates: the accumulator and the carry it produces
\* from a_before, the operand, the carry flag (0 or 1) and the DECIMAL flag
adc_sum(a_before, value, carry_in, decimal) ==
    LET sum_16 == a_before + value + carry_in
        low0 == WrapAdd8(WrapAdd8(BitAnd(a_before, \h0F), BitAnd(value, \h0F)), carry_in)
        high0 == WrapAdd8(a_before \div 16, value \div 16)
        low_nibble == IF low0 > 9 THEN WrapSub8(low0, 10) ELSE low0
        high1 == IF low0 > 9 THEN WrapAdd8(high0, 1) ELSE high0
        high_nibble == IF high1 > 9 THEN WrapSub8(high1, 10) ELSE high1
    IN IF decimal
       THEN [a_after |-> BitOr((high_nibble * 16) % 256, BitAnd(low_nibble, \h0F)),
             carry_out |-> (sum_16 > \hFF \/ high1 > 9)]
       ELSE [a_after |-> BitAnd(sum_16, \hFF), carry_out |-> sum_16 > \hFF]

\* the flags CPU::adc and CPU::sbc leave: CARRY, OVERFLOW, then ZERO and
\* NEGATIVE of the new accumulator
alu_flags(p, a_after, carry, overflow) ==
    Flags_set(Flags_set(Flags_set(Flags_set(p, Flags_CARRY, carry),
                                  Flags_OVERFLOW, overflow),
                        Flags_ZERO, a_after = 0),
              Flags_NEGATIVE, BitAnd(a_after, \h80) # 0)

\* adc adding without the carry flag
adc_no_carry_in(m, value) ==
    LET r == adc_sum(m.cpu.a, value, 0, Flags_contains(m.cpu.p, Flags_DECIMAL))
        overflow == /\ BitAnd(BitXor(m.cpu.a, value), \h80) = 0
                    /\ BitAnd(BitXor(m.cpu.a, r.a_after), \h80) # 0
    IN [m EXCEPT !.cpu.a = r.a_after,
                 !.cpu.p = alu_flags(m.cpu.p, r.a_after, r.carry_out, overflow)]

\* adc adding in binary whatever the DECIMAL flag
adc_binary_only(m, value) ==
    LET r == adc_sum(m.cpu.a, value,
                     IF Flags_contains(m.cpu.p, Flags_CARRY) THEN 1 ELSE 0, FALSE)
        overflow == /\ BitAnd(BitXor(m.cpu.a, value), \h80) = 0
                    /\ BitAnd(BitXor(m.cpu.a, r.a_after), \h80) # 0
    IN [m EXCEPT !.cpu.a = r.a_after,
                 !.cpu.p = alu_flags(m.cpu.p, r.a_after, r.carry_out, overflow)]

\* CPU::adc
adc(m, value) ==
    LET r == adc_sum(m.cpu.a, value,
                     IF Flags_contains(m.cpu.p, Flags_CARRY) THEN 1 ELSE 0,
                     Flags_contains(m.cpu.p, Flags_DECIMAL))
        overflow == /\ BitAnd(BitXor(m.cpu.a, value), \h80) = 0
                    /\ BitAnd(BitXor(m.cpu.a, r.a_after), \h80) # 0
    IN [m EXCEPT !.cpu.a = r.a_after,
                 !.cpu.p = alu_flags(m.cpu.p, r.a_after, r.carry_out, overflow)]

\* CPU::compare
compare(m, reg, value) ==
    LET result == WrapSub8(reg, value)
    IN [m EXCEPT !.cpu.p = Flags_set(Flags_set(Flags_set(m.cpu.p, Flags_CARRY, reg >= value),
                                               Flags_ZERO, result = 0),
                                     Flags_NEGATIVE, BitAnd(result, \h80) # 0)]

\* CPU::fetch_indirect_y: the machine afterwards and the effective address
fetch_indirect_y(m) ==
    LET f == fetch_byte(m)
        low_byte == Bus_read_byte(f.m, f.val)
        high_byte == Bus_read_byte(f.m, BitAnd(WrapAdd16(f.val, 1), \hFF))
    IN [m |-> f.m, val |-> WrapAdd16(high_byte * 256 + low_byte, m.cpu.y)]

\* the high byte of JMP (abs) always read from addr + 1
jmp_indirect_high_next(m, addr) == Bus_read_byte(m, WrapAdd16(addr, 1))

\* CPU::decode_execute, 0x6C: the high byte of the target of JMP (addr)
jmp_indirect_high(m, addr) ==
    IF m.cpu.cpu_type = "NMOS6502" /\ BitAnd(addr, \hFF) = \hFF
    THEN Bus_read_byte(m, addr - BitAnd(addr, \hFF))
    ELSE Bus_read_byte(m, WrapAdd16(addr, 1))

\* u16::wrapping_add_signed of a byte taken as i8
wrapping_add_signed(pc, offset) ==
    (pc + (IF offset >= 128 THEN offset - 256 ELSE offset) + 65536) % 65536

\* CPU::sbc up to the flag updates: the accumulator and whether it borrowed
sbc_difference(a_before, value, carry_in, decimal) ==
    LET binary_result == a_before + BitNot(value) + carry_in
        low0 == WrapSub8(WrapSub8(BitAnd(a_before, \h0F), BitAnd(value, \h0F)),
                         1 - carry_in)
        high0 == WrapSub8(a_before \div 16, value \div 16)
        low_borrow == BitAnd(low0, \h10) # 0
        low_nibble == IF low_borrow THEN BitAnd(WrapSub8(low0, 6), \h0F) ELSE low0
        high1 == IF low_borrow THEN WrapSub8(high0, 1) ELSE high0
        high_nibble == IF high1 > 9 THEN BitAnd(WrapSub8(high1, 6), \h0F) ELSE high1
    IN IF decimal
       THEN [temp_result |-> BitOr((high_nibble * 16) % 256, BitAnd(low_nibble, \h0F)),
             did_borrow |-> (binary_result < \h100 \/ high1 > 9)]
       ELSE [temp_result |-> BitAnd(binary_result, \hFF),
             did_borrow |-> binary_result < \h100]

\* sbc subtracting without the borrow taken from the carry flag
sbc_no_borrow_in(m, value) ==
    LET r == sbc_difference(m.cpu.a, value, 1, Flags_contains(m.cpu.p, Flags_DECIMAL))
        overflow == /\ BitAnd(BitXor(m.cpu.a, value), \h80) # 0
                    /\ BitAnd(BitXor(m.cpu.a, r.temp_result), \h80) # 0
    IN [m EXCEPT !.cpu.a = r.temp_result,
                 !.cpu.p = alu_flags(m.cpu.p, r.temp_result, ~r.did_borrow, overflow)]

\* CPU::sbc
sbc(m, value) ==
    LET r == sbc_difference(m.cpu.a, value,
                            IF Flags_contains(m.cpu.p, Flags_CARRY) THEN 1 ELSE 0,
                            Flags_contains(m.cpu.p, Flags_DECIMAL))
        overflow == /\ BitAnd(BitXor(m.cpu.a, value), \h80) # 0
                    /\ BitAnd(BitXor(m.cpu.a, r.temp_result), \h80) # 0
    IN [m EXCEPT !.cpu.a = r.temp_result,
                 !.cpu.p = alu_flags(m.cpu.p, r.temp_result, ~r.did_borrow, overflow)]

(***************************************************************************)
(* cpu.rs: decode_execute and step                                         *)
(***************************************************************************)
\* the opcodes of decode_execute that are modelled; a CPU step is explored
\* only while the opcode it fetches is one of these
ModelledOpcodes ==
    {\h00, \h02, \h0F, \h11, \h18, \h1A, \h31, \h38, \h40, \h4C, \h51, \h58,
     \h64, \h69, \h6C, \h71, \h78, \h80, \h87, \h89, \h8D, \h91, \h9A, \h9C,
     \hA2, \hA9, \hB1, \hB2, \hCB, \hD1, \hD8, \hDA, \hDB, \hE9, \hEA, \hF1,
     \hF8, \hFA, \h20, \h60, \h99, \hB9}

\* CPU::decode_execute, called with PC already past the opcode byte
decode_execute(m, opcode) ==
    CASE opcode = \hA9 ->
            LET f == fetch_byte(m)
            IN update_zero_and_negative_flags([f.m EXCEPT !.cpu.a = f.val], f.val)
      [] opcode = \hA2 ->
            LET f == fetch_byte(m)
            IN update_zero_and_negative_flags([f.m EXCEPT !.cpu.x = f.val], f.val)
      [] opcode = \h8D ->
            LET f == fetch_word(m)
            IN Bus_write_byte(f.m, f.val, f.m.cpu.a)
      [] opcode = \h4C ->
            LET f == fetch_word(m)
            IN [f.m EXCEPT !.cpu.pc = f.val]
      [] opcode = \h20 ->
            LET f == fetch_word(m)
                pc1 == WrapAdd16(f.m.cpu.pc, 65535)
                hi == push_stack([f.m EXCEPT !.cpu.pc = pc1], pc1 \div 256)
                lo == push_stack(hi, pc1 % 256)
            IN [lo EXCEPT !.cpu.pc = f.val]
      [] opcode = \h60 ->
            LET low == pop_stack(m)
                high == pop_stack(low.m)
                return_addr == high.val * 256 + low.val
            IN [high.m EXCEPT !.cpu.pc = WrapAdd16(return_addr, 1)]
      [] opcode = \h99 ->
            LET f == fetch_word(m)
                sum == WrapAdd16(f.val, f.m.cpu.y)
                addr == IF f.val < 256 THEN sum % 256 ELSE sum
            IN Bus_write_byte(f.m, addr, f.m.cpu.a)
      [] opcode = \hB9 ->
            LET f == fetch_word(m)
                addr == WrapAdd16(f.val, f.m.cpu.y)
                value == Bus_read_byte(f.m, addr)
            IN update_zero_and_negative_flags([f.m EXCEPT !.cpu.a = value], value)
      [] opcode = \h40 ->
            LET p0 == pop_stack(m)
                restored_p == Flags_remove(Flags_insert(p0.val, Flags_UNUSED), Flags_BREAK)
                lo == pop_stack(p0.m)
                hi == pop_stack(lo.m)
            IN [hi.m EXCEPT !.cpu.p = restored_p, !.cpu.pc = hi.val * 256 + lo.val]
      [] opcode = \hCB ->
            IF m.cpu.cpu_type = "WDC65C02S"
            THEN [m EXCEPT !.interrupts = enter_wait(m.interrupts)]
            ELSE m
      [] opcode = \hDB ->
            IF m.cpu.cpu_type = "WDC65C02S"
            THEN [m EXCEPT !.interrupts = enter_halt(m.interrupts)]
            ELSE m
      [] opcode = \hD8 -> [m EXCEPT !.cpu.p = Flags_remove(m.cpu.p, Flags_DECIMAL)]
      [] opcode = \hF8 -> [m EXCEPT !.cpu.p = Flags_insert(m.cpu.p, Flags_DECIMAL)]
      [] opcode = \h00 -> [m EXCEPT !.interrupts = request_brk(m.interrupts)]
      [] opcode = \hEA -> m
      [] opcode = \h38 -> [m EXCEPT !.cpu.p = Flags_insert(m.cpu.p, Flags_CARRY)]
      [] opcode = \h18 -> [m EXCEPT !.cpu.p = Flags_remove(m.cpu.p, Flags_CARRY)]
      [] opcode = \h9A -> [m EXCEPT !.cpu.sp = m.cpu.x]
      [] opcode = \h58 -> [m EXCEPT !.cpu.p = Flags_remove(m.cpu.p, Flags_IRQ_DISABLE)]
      [] opcode = \h78 -> [m EXCEPT !.cpu.p = Flags_insert(m.cpu.p, Flags_IRQ_DISABLE)]
      [] opcode = \h69 ->
            LET f == fetch_byte(m)
            IN adc(f.m, f.val)
      [] opcode = \hE9 ->
            LET f == fetch_byte(m)
            IN sbc(f.m, f.val)
      [] opcode = \h6C ->
            LET f == fetch_word(m)
                lo == Bus_read_byte(f.m, f.val)
                hi == jmp_indirect_high(f.m, f.val)
            IN [f.m EXCEPT !.cpu.pc = hi * 256 + lo]
      [] opcode = \h11 ->
            LET f == fetch_byte(m)
                addr == WrapAdd16(Bus_read_word(f.m, f.val), m.cpu.y)
                a == BitOr(m.cpu.a, Bus_read_byte(f.m, addr))
            IN update_zero_and_negative_flags([f.m EXCEPT !.cpu.a = a], a)
      [] opcode = \h31 ->
            LET f == fetch_byte(m)
                addr == WrapAdd16(Bus_read_word(f.m, f.val), m.cpu.y)
                a == BitAnd(m.cpu.a, Bus_read_byte(f.m, addr))
            IN update_zero_and_negative_flags([f.m EXCEPT !.cpu.a = a], a)
      [] opcode = \h51 ->
            LET f == fetch_byte(m)
                addr == WrapAdd16(Bus_read_word(f.m, f.val), m.cpu.y)
                a == BitXor(m.cpu.a, Bus_read_byte(f.m, addr))
            IN update_zero_and_negative_flags([f.m EXCEPT !.cpu.a = a], a)
      [] opcode = \h71 ->
            LET f == fetch_indirect_y(m)
            IN adc(f.m, Bus_read_byte(f.m, f.val))
      [] opcode = \h91 ->
            LET f == fetch_byte(m)
                pointer_address == Bus_read_word(f.m, BitAnd(f.val, \hFF))
            IN Bus_write_byte(f.m, WrapAdd16(pointer_address, m.cpu.y), m.cpu.a)
      [] opcode = \hB1 ->
            LET f == fetch_byte(m)
                pointer_address == Bus_read_word(f.m, BitAnd(f.val, \hFF))
                value == Bus_read_byte(f.m, WrapAdd16(pointer_address, m.cpu.y))
            IN update_zero_and_negative_flags([f.m EXCEPT !.cpu.a = value], value)
      [] opcode = \hD1 ->
            LET f == fetch_byte(m)
                addr == WrapAdd16(Bus_read_word(f.m, f.val), m.cpu.y)
            IN compare(f.m, m.cpu.a, Bus_read_byte(f.m, addr))
      [] opcode = \hF1 ->
            LET f == fetch_indirect_y(m)
            IN sbc(f.m, Bus_read_byte(f.m, f.val))
      [] opcode = \h80 ->
            LET f == fetch_byte(m)
            IN [f.m EXCEPT !.cpu.pc = wrapping_add_signed(f.m.cpu.pc, f.val)]
      [] opcode = \h9C ->
            LET f == fetch_word(m)
            IN Bus_write_byte(f.m, f.val, 0)
      [] opcode = \h64 ->
            LET f == fetch_byte(m)
            IN Bus_write_byte(f.m, f.val, 0)
      [] opcode = \hDA -> push_stack(m, m.cpu.x)
      [] opcode = \hFA ->
            LET p0 == pop_stack(m)
                m1 == [p0.m EXCEPT !.cpu.x = p0.val]
            IN IF m.cpu.cpu_type \in {"CMOS65C02", "WDC65C02S"}
               THEN update_zero_and_negative_flags(m1, p0.val)
               ELSE m1
      [] opcode = \h89 ->
            LET f == fetch_byte(m)
            IN [f.m EXCEPT !.cpu.p = Flags_set(m.cpu.p, Flags_ZERO,
                                               BitAnd(m.cpu.a, f.val) = 0)]
      [] opcode = \h1A ->
            IF m.cpu.cpu_type # "NMOS6502"
            THEN LET a == WrapAdd8(m.cpu.a, 1)
                 IN update_zero_and_negative_flags([m EXCEPT !.cpu.a = a], a)
            ELSE m
      [] opcode = \hB2 ->
            IF m.cpu.cpu_type # "NMOS6502"
            THEN LET f == fetch_byte(m)
                     value == Bus_read_byte(f.m, Bus_read_word(f.m, f.val))
                 IN update_zero_and_negative_flags([f.m EXCEPT !.cpu.a = value], value)
            ELSE m
      [] opcode = \h87 ->
            LET mask == Pow2(BitAnd(opcode \div 16, 7))
                f == fetch_byte(m)
            IN Bus_write_byte(f.m, f.val, BitOr(Bus_read_byte(f.m, f.val), mask))
      [] opcode = \h0F ->
            LET f1 == fetch_byte(m)
                f2 == fetch_byte(f1.m)
                bit == Pow2(WrapSub8(opcode, \h0F) \div 16)
            IN IF BitAnd(Bus_read_byte(f2.m, f1.val), bit) = 0
               THEN [f2.m EXCEPT !.cpu.pc = wrapping_add_signed(f2.m.cpu.pc, f2.val)]
               ELSE f2.m
      [] opcode = \h02 -> [m EXCEPT !.cpu.pc = WrapAdd16(m.cpu.pc, 1)]

\* CPU::step between handle_interrupt and the fetch: the result hi of
\* handle_interrupt, whether the step goes on to fetch an instruction, and the
\* machine it fetches from
step_after_interrupt(hi) ==
    IF hi.ret THEN [hi |-> hi, fetch |-> FALSE, m |-> hi.m]
    ELSE IF hi.m.interrupts.halted THEN [hi |-> hi, fetch |-> FALSE, m |-> hi.m]
    ELSE IF hi.m.interrupts.waiting
    THEN IF hi.m.interrupts.irq \/ hi.m.interrupts.nmi
         THEN [hi |-> hi, fetch |-> TRUE,
               m |-> [hi.m EXCEPT !.interrupts = leave_wait(hi.m.interrupts)]]
         ELSE [hi |-> hi, fetch |-> FALSE, m |-> hi.m]
    ELSE [hi |-> hi, fetch |-> TRUE, m |-> hi.m]

\* CPU::step up to the fetch
step_entry(m) == step_after_interrupt(handle_interrupt(m))

\* the opcode CPU::step fetches after the entry e, -1 if it returns before the fetch
step_opcode(e) == IF e.fetch THEN Bus_read_byte(e.m, e.m.cpu.pc) ELSE -1

\* CPU::step, decode_execute of the fetched byte
step_execute(f) == decode_execute(f.m, f.val)

\* CPU::step from the entry e on (the trace disassembly and the trace line only
\* read the flat RAM)
step_fetch(e) == IF e.fetch THEN step_execute(fetch_byte(e.m)) ELSE e.m

\* CPU::step: the machine afterwards
step(m) == step_fetch(step_entry(m))

(***************************************************************************)
(* cpu.rs: construction and cold boot on the Generic target                *)
(***************************************************************************)
\* CPU::new(SystemType::Generic, cpu_type, _) with Bus::new
CPU_new(cpu_type) ==
    [ cpu |-> [cpu_type |-> cpu_type, pc |-> 0, p |-> 54,
               a |-> 0, x |-> 0, y |-> 0, sp |-> 0],
      interrupts |-> InterruptController_default,
      bus_ram |-> Memory_new,
      i_port |-> 0 ]

\* Bus::write_bytes
RECURSIVE Bus_write_bytes(_, _, _)
Bus_write_bytes(m, start, bytes) ==
    IF bytes = <<>> THEN m
    ELSE Bus_write_bytes(Bus_write_byte(m, start, Head(bytes)),
                         WrapAdd16(start, 1), Tail(bytes))

\* resolve_entry_point taking the reset vector as it reads
resolve_entry_point_no_default(m) == Bus_read_word(m, \hFFFC)

\* CPU::resolve_entry_point, system_type Generic, entry_point_override None
resolve_entry_point(m) ==
    LET reset_vector == Bus_read_word(m, \hFFFC)
    IN IF reset_vector # \hFFFF THEN reset_vector ELSE \h0400

\* initialize_registers leaving the stack pointer as it is
initialize_registers_keep_sp(m) ==
    [m EXCEPT !.cpu.a = 255, !.cpu.x = 255, !.cpu.y = 255]

\* CPU::initialize_registers
initialize_registers(m) ==
    [m EXCEPT !.cpu.a = 255, !.cpu.x = 255, !.cpu.y = 255, !.cpu.sp = 255]

\* CPU::initialize_flags: P = 0b00110100, then D removed on the CMOS variants
initialize_flags(m) ==
    [m EXCEPT !.cpu.p = IF m.cpu.cpu_type # "NMOS6502"
                        THEN Flags_remove(52, Flags_DECIMAL)
                        ELSE 52]

\* CPU::init, the entry point on the Generic target
CPU_init_entry(m) == [m EXCEPT !.cpu.pc = resolve_entry_point(m)]

\* CPU::init, system_type Generic
CPU_init(m) ==
    initialize_flags(initialize_registers(
        CPU_init_entry([m EXCEPT !.interrupts = clear_all(m.interrupts)])))

\* CPU::init, system_type AppleIIc, without the soft switches: the entry
\* point is OLDRST
CPU_init_iic(m) ==
    initialize_flags(initialize_registers(
        [m EXCEPT !.interrupts = clear_all(m.interrupts), !.cpu.pc = \hFF59]))

(***************************************************************************)
(* State                                                                   *)
(***************************************************************************)
VARIABLES
    system_type,  \* Bus::system_type / CPU::system_type
    iou,          \* Bus::iou
    cpu,          \* CPU: cpu_type, pc, p and the registers a, x, y, sp
    interrupts,   \* Bus::interrupts
    bus_ram,      \* Bus::bus_ram
    i_port,       \* Bus::i_port
    last_ops,     \* the last two bus accesses in $C000-$C0FF, oldest first
    lc_reads,     \* the last two bus reads in $C080-$C08F, oldest first
    nops,         \* number of bus accesses in $C000-$C0FF made so far
    last_call,    \* the operation that produced the current state
    poll,         \* arguments and return value of the last handle_interrupt_with_vectors
    last_step,    \* the last CPU::step: the machine before it and after its interrupt
                  \* phase, what handle_interrupt did, the opcode fetched and its address
    n_steps,      \* number of CPU steps made so far
    n_req,        \* number of external interrupt requests made so far
    mmu,          \* Bus::mmu
    mem_ops       \* the bus accesses made outside $C000-$C0FF, oldest first

cpuvars == <<cpu, interrupts, bus_ram, i_port, last_step, n_steps, n_req>>

mmuvars == <<mmu, mem_ops>>

vars == <<system_type, iou, cpu, interrupts, bus_ram, i_port, last_ops, lc_reads,
          nops, last_call, poll, last_step, n_steps, n_req, mmu, mem_ops>>

\* the machine made of the current CPU, controller, RAM and feedback register
Machine == [cpu |-> cpu, interrupts |-> interrupts, bus_ram |-> bus_ram, i_port |-> i_port]

\* the current state is the machine m / the next state is the machine m
IsMachine(m) ==
    /\ cpu = m.cpu
    /\ interrupts = m.interrupts
    /\ bus_ram = m.bus_ram
    /\ i_port = m.i_port

SetMachine(m) ==
    /\ cpu' = m.cpu
    /\ interrupts' = m.interrupts
    /\ bus_ram' = m.bus_ram
    /\ i_port' = m.i_port

\* no handle_interrupt_with_vectors call / no CPU step made yet
NoPoll == [args |-> <<0, 0, 0>>, ret |-> NoInterrupt]
NoStep == [kind |-> "None", serviced |-> FALSE, ret |-> FALSE, opcode |-> -1,
           fetched_at |-> -1, pre |-> CPU_new("NMOS6502"), mid |-> CPU_new("NMOS6502")]

\* the last (at most two) elements of a sequence that got a new element
Last2(seq, e) == IF Len(seq) = 0 THEN <<e>> ELSE <<seq[Len(seq)], e>>

\* a bus access as recorded in last_ops
Rd(addr) == [kind |-> "r", addr |-> addr]
Wr(addr) == [kind |-> "w", addr |-> addr]

(***************************************************************************)
(* bus.rs on the AppleIIc target, soft-switch page $C000-$C0FF             *)
(***************************************************************************)
\* soft-switch addresses the bus accesses are drawn from
IICReadAddrs == LCAddrs \cup {\hC084, \hC000, \hC012}
IICWriteAddrs == LCAddrs \cup {\hC084, \hC003, \hC005, \hC008, \hC009, \hC028}

\* the soft switches and the memory banks of a bus
IICBusOf(s, m) == [iou |-> s, mmu |-> m]

\* Bus::handle_iic_read: the IOU afterwards and the byte returned
handle_iic_read(b, addr) ==
    IF addr >= \hC000 /\ addr <= \hC0FF
    THEN ss_read(b.iou, addr)
    ELSE SS(b.iou, MMU_read_byte(b.mmu, b.iou, addr))

\* Bus::handle_iic_write: the IOU and the MMU afterwards and the byte returned
handle_iic_write(b, addr, value) ==
    IF addr >= \hC000 /\ addr <= \hC0FF
    THEN [iou |-> ss_write(b.iou, addr).iou, mmu |-> b.mmu,
          val |-> ss_write(b.iou, addr).val]
    ELSE [iou |-> b.iou,
          mmu |-> MMU_write_byte(b.mmu, addr, value, b.iou.mem_state,
                                 b.iou.is_80store, FALSE),
          val |-> 0]

\* the bus of the current state
IICBus == IICBusOf(iou, mmu)

\* CPU::new(SystemType::AppleIIc, cpu_type, _) with Bus::new
InitIIcOf(cpu_type) ==
    /\ system_type = "AppleIIc"
    /\ iou = IOU_new
    /\ cpu = CPU_new(cpu_type).cpu
    /\ interrupts = InterruptController_default
    /\ bus_ram = Memory_new
    /\ i_port = 0
    /\ last_ops = <<>>
    /\ lc_reads = <<>>
    /\ nops = 0
    /\ last_call = "new"
    /\ poll = NoPoll
    /\ last_step = NoStep
    /\ n_steps = 0
    /\ n_req = 0
    /\ mmu = MMU_new
    /\ mem_ops = <<>>

\* the Apple IIc has a CMOS 65C02
InitIIc == InitIIcOf("CMOS65C02")

\* the last call ended in a panic: the program has stopped
Panicked == last_call = "panic"

\* whether a call whose result is r panics: never without an overflow, and
\* with one in the build with overflow checks and not in the build without
Panics(r) == {FALSE} \cup {r.overflow}

\* Bus::read_byte(addr) with addr in $C000-$C0FF
BusRead(addr) ==
    /\ system_type = "AppleIIc"
    /\ ~Panicked
    /\ nops < MaxOps
    /\ \E panics \in Panics(handle_iic_read(IICBus, addr)) :
          /\ iou' = IF panics THEN iou ELSE handle_iic_read(IICBus, addr).iou
          /\ last_call' = IF panics THEN "panic" ELSE "read_byte"
    /\ last_ops' = Last2(last_ops, Rd(addr))
    /\ lc_reads' = IF addr \in \hC080 .. \hC08F THEN Last2(lc_reads, addr) ELSE lc_reads
    /\ nops' = nops + 1
    /\ UNCHANGED <<system_type, cpuvars, poll>>
    /\ UNCHANGED mmuvars

\* Bus::write_byte(addr, value) with addr in $C000-$C0FF (ss_write ignores the value)
BusWrite(addr) ==
    /\ system_type = "AppleIIc"
    /\ ~Panicked
    /\ nops < MaxOps
    /\ iou' = handle_iic_write(IICBus, addr, 0).iou
    /\ last_ops' = Last2(last_ops, Wr(addr))
    /\ nops' = nops + 1
    /\ last_call' = "write_byte"
    /\ UNCHANGED <<system_type, lc_reads, cpuvars, poll>>
    /\ UNCHANGED mmuvars

SSRead == \E addr \in IICReadAddrs : BusRead(addr)
SSWrite == \E addr \in IICWriteAddrs : BusWrite(addr)

\* the keys pressed, as the byte the event handler makes of them: 'A', and
\* the 0 of a key event without text
Keys == {\h41, \h00}

\* App::window_event, KeyboardInput arm, for a key with text: the host stores
\* the key in the keyboard latch between two CPU ticks
KeyPress(key_char) ==
    /\ system_type = "AppleIIc"
    /\ ~Panicked
    /\ iou' = [iou EXCEPT !.last_key = key_char, !.key_ready = TRUE]
    /\ last_call' = "window_event"
    /\ UNCHANGED <<system_type, last_ops, lc_reads, nops, cpuvars, poll>>
    /\ UNCHANGED mmuvars

KeyPressAny == \E key_char \in Keys : KeyPress(key_char)

NextIIc == SSRead \/ SSWrite \/ KeyPressAny

\* the AppleIIc bus under any sequence of soft-switch reads and writes, with
\* key presses at any time
SpecIIc == InitIIc /\ [][NextIIc]_vars

\* the AppleIIc bus under soft-switch reads only
SpecIIcReads == InitIIc /\ [][SSRead]_vars

\* the display switches read and written: TEXT off and on, MIXED on, PAGE2
\* on, LORES, HIRES, DHIRES on and off (effective while IOUDIS is off), and
\* the IOUDIS switches
VideoAddrs == {\hC050, \hC051, \hC053, \hC055, \hC056, \hC057, \hC05E, \hC05F,
               \hC07E, \hC07F}

VideoRead == \E addr \in VideoAddrs : BusRead(addr)
VideoWrite == \E addr \in VideoAddrs : BusWrite(addr)

\* the AppleIIc bus under any sequence of reads and writes of display switches
SpecVideo == InitIIc /\ [][VideoRead \/ VideoWrite]_vars

(***************************************************************************)
(* disassembler.rs: Disassembler::disassemble(bus, addr) on the AppleIIc   *)
(* bus.  Its three Bus::read_byte calls are all it does to the bus; the    *)
(* rest formats the text returned.                                         *)
(***************************************************************************)
\* Disassembler::disassemble once its three reads are made: the bus afterwards
\* and the three bytes read.  overflow tells that one of the reads overflowed
\* a counter; the build with overflow checks stops in that read, the
\* panic_reads-th of the call, with the IOU panic_iou, that of the reads made
\* before it, and makes none of the reads after it.
disassemble_read(b, opcode, operand1, operand2) ==
    [iou |-> operand2.iou, mmu |-> b.mmu,
     opcode |-> opcode.val, operand1 |-> operand1.val, operand2 |-> operand2.val,
     overflow |-> opcode.overflow \/ operand1.overflow \/ operand2.overflow,
     panic_iou |-> IF opcode.overflow THEN b.iou
                   ELSE IF operand1.overflow THEN opcode.iou
                   ELSE operand1.iou,
     panic_reads |-> IF opcode.overflow THEN 1
                     ELSE IF operand1.overflow THEN 2
                     ELSE 3]

\* Disassembler::disassemble after its reads of the opcode and of operand1
disassemble_operand2(b, addr, opcode, operand1) ==
    disassemble_read(b, opcode, operand1,
        handle_iic_read(IICBusOf(operand1.iou, b.mmu), WrapAdd16(addr, 2)))

\* Disassembler::disassemble after its read of the opcode
disassemble_operand1(b, addr, opcode) ==
    disassemble_operand2(b, addr, opcode,
        handle_iic_read(IICBusOf(opcode.iou, b.mmu), WrapAdd16(addr, 1)))

\* Disassembler::disassemble: it reads the opcode at addr and the bytes at
\* addr + 1 and addr + 2, whatever the addressing mode
disassemble(b, addr) == disassemble_operand1(b, addr, handle_iic_read(b, addr))

\* the addresses disassembled: RAM, the last bytes below the soft-switch
\* page, display switches, LC latches, and the last byte of the address space
DisAddrs == {\h0400, \hBFFE, \hC055, \hC080, \hC088, \hFFFF}

\* last_ops and lc_reads after a bus read of addr
ReadOps(ops, addr) ==
    IF addr >= \hC000 /\ addr <= \hC0FF THEN Last2(ops, Rd(addr)) ELSE ops
ReadLc(reads, addr) ==
    IF addr \in \hC080 .. \hC08F THEN Last2(reads, addr) ELSE reads

\* the addresses of the first n bus reads of disassemble(bus, addr), in order
DisReads(addr, n) == SubSeq(<<addr, WrapAdd16(addr, 1), WrapAdd16(addr, 2)>>, 1, n)

\* last_ops, lc_reads and nops after the bus reads of addrs, in order
RECURSIVE ReadOpsOf(_, _)
ReadOpsOf(ops, addrs) ==
    IF addrs = <<>> THEN ops
    ELSE ReadOpsOf(ReadOps(ops, Head(addrs)), Tail(addrs))
RECURSIVE ReadLcOf(_, _)
ReadLcOf(reads, addrs) ==
    IF addrs = <<>> THEN reads
    ELSE ReadLcOf(ReadLc(reads, Head(addrs)), Tail(addrs))
ReadCount(n, addrs) ==
    n + Cardinality({i \in DOMAIN addrs : addrs[i] >= \hC000 /\ addrs[i] <= \hC0FF})

\* the outcome of a disassemble call whose reads give r: the three reads of
\* the call are made, or, when it panics, those up to the one that overflows
DisassembleOutcome(addr, r, panics) ==
    /\ iou' = IF panics THEN r.panic_iou ELSE r.iou
    /\ mmu' = r.mmu
    /\ last_call' = IF panics THEN "panic" ELSE "disassemble"
    /\ last_ops' = ReadOpsOf(last_ops, DisReads(addr, IF panics THEN r.panic_reads ELSE 3))
    /\ lc_reads' = ReadLcOf(lc_reads, DisReads(addr, IF panics THEN r.panic_reads ELSE 3))
    /\ nops' = ReadCount(nops, DisReads(addr, IF panics THEN r.panic_reads ELSE 3))

\* Disassembler::disassemble(&bus, addr), begun after fewer than max
\* soft-switch accesses
DisassembleWithin(addr, max) ==
    /\ system_type = "AppleIIc"
    /\ ~Panicked
    /\ nops < max
    /\ \E panics \in Panics(disassemble(IICBus, addr)) :
          DisassembleOutcome(addr, disassemble(IICBus, addr), panics)
    /\ UNCHANGED <<system_type, cpuvars, poll, mem_ops>>

\* Disassembler::disassemble(&bus, addr)
Disassemble(addr) == DisassembleWithin(addr, MaxOps)

DisassembleAny == \E addr \in DisAddrs : Disassemble(addr)

\* the AppleIIc bus under soft-switch reads and disassembly
SpecDis == InitIIc /\ [][SSRead \/ DisassembleAny]_vars

(***************************************************************************)
(* Long runs of reads of the read-twice latches                            *)
(***************************************************************************)
\* the read-twice addresses read
LatchAddrs == {\hC081, \hC083}

\* Bus::read_byte(addr) with addr a read-twice address, up to MaxLatchReads
\* reads: the read that finds the count at 255 panics in the build with
\* overflow checks and wraps the count to 0 in the build without
LatchRead(addr) ==
    /\ system_type = "AppleIIc"
    /\ ~Panicked
    /\ nops < MaxLatchReads
    /\ \E panics \in Panics(handle_iic_read(IICBus, addr)) :
          /\ iou' = IF panics THEN iou ELSE handle_iic_read(IICBus, addr).iou
          /\ last_call' = IF panics THEN "panic" ELSE "read_byte"
    /\ last_ops' = Last2(last_ops, Rd(addr))
    /\ lc_reads' = Last2(lc_reads, addr)
    /\ nops' = nops + 1
    /\ UNCHANGED <<system_type, cpuvars, poll>>
    /\ UNCHANGED mmuvars

LatchReadAny == \E addr \in LatchAddrs : LatchRead(addr)

\* the AppleIIc bus under any sequence of reads of $C081 and $C083
SpecLatch == InitIIc /\ [][LatchReadAny]_vars

\* Disassembler::disassemble(&bus, $C080) at any point of a long run: its
\* second read is of the latch $C081
LatchDisassemble == DisassembleWithin(\hC080, MaxLatchReads)

\* the AppleIIc bus under any sequence of reads of $C081 and of disassemblies
\* of $C080
SpecLatchDis == InitIIc /\ [][LatchRead(\hC081) \/ LatchDisassemble]_vars

(***************************************************************************)
(* The interrupt controller on its own: its public operations applied to   *)
(* any controller value.  The fields are public; no operation sets reset,  *)
(* so the initial controller is the default one with either value of it.   *)
(***************************************************************************)
\* vectors handed to handle_interrupt_with_vectors
PollNmiVectors == {\h0500, \h0510}
PollResetVectors == {\h0400, \h0410}
PollIrqVectors == {\h0600, \h0610}

InitIC ==
    /\ system_type = "Generic"
    /\ iou = IOU_new
    /\ cpu = CPU_new("CMOS65C02").cpu
    /\ \E r \in BOOLEAN : interrupts = [InterruptController_default EXCEPT !.reset = r]
    /\ bus_ram = Memory_new
    /\ i_port = 0
    /\ last_ops = <<>>
    /\ lc_reads = <<>>
    /\ nops = 0
    /\ last_call = "new"
    /\ poll = NoPoll
    /\ last_step = NoStep
    /\ n_steps = 0
    /\ n_req = 0
    /\ mmu = MMU_new
    /\ mem_ops = <<>>

\* a call of a controller operation that returns nothing
ICCall(name, ic) ==
    /\ interrupts' = ic
    /\ last_call' = name
    /\ UNCHANGED <<system_type, iou, cpu, bus_ram, i_port, last_ops, lc_reads, nops,
                   poll, last_step, n_steps, n_req>>
    /\ UNCHANGED mmuvars

RequestNmi == ICCall("request_nmi", request_nmi(interrupts))
RequestIrq == ICCall("request_irq", request_irq(interrupts))
RequestBrk == ICCall("request_brk", request_brk(interrupts))
EnterWait == ICCall("enter_wait", enter_wait(interrupts))
LeaveWait == ICCall("leave_wait", leave_wait(interrupts))
EnterHalt == ICCall("enter_halt", enter_halt(interrupts))
LeaveHalt == ICCall("leave_halt", leave_halt(interrupts))
ClearAll == ICCall("clear_all", clear_all(interrupts))

\* InterruptController::handle_interrupt_with_vectors(nmi_vector, reset_vector, irq_vector)
Poll(nmi_vector, reset_vector, irq_vector) ==
    LET r == handle_interrupt_with_vectors(interrupts, nmi_vector, reset_vector, irq_vector)
    IN /\ interrupts' = r.ic
       /\ poll' = [args |-> <<nmi_vector, reset_vector, irq_vector>>, ret |-> r.ret]
       /\ last_call' = "handle_interrupt_with_vectors"
       /\ UNCHANGED <<system_type, iou, cpu, bus_ram, i_port, last_ops, lc_reads, nops,
                      last_step, n_steps, n_req>>
       /\ UNCHANGED mmuvars

PollAny ==
    \E nv \in PollNmiVectors, rv \in PollResetVectors, iv \in PollIrqVectors :
        Poll(nv, rv, iv)

NextIC ==
    \/ RequestNmi
    \/ RequestIrq
    \/ RequestBrk
    \/ EnterWait
    \/ LeaveWait
    \/ EnterHalt
    \/ LeaveHalt
    \/ ClearAll
    \/ PollAny

SpecIC == InitIC /\ [][NextIC]_vars

(***************************************************************************)
(* The CPU on the Generic target: a program is written to the flat RAM,    *)
(* the CPU is cold-booted and stepped, and interrupts are requested        *)
(* between steps through the feedback register $BFFC.                      *)
(***************************************************************************)
\* instruction groups a program is made of
Pieces ==
    { <<\h58>>,                          \* CLI
      <<\hF8>>,                          \* SED
      <<\h00>>,                          \* BRK
      <<\hA2, 1, \h9A>>,                 \* LDX #$01 ; TXS
      <<\hA9, 1, \h8D, \hFC, \hBF>>,     \* LDA #$01 ; STA $BFFC
      <<\hCB>>,                          \* WAI
      <<\hDB>> }                         \* STP

Programs == {p1 \o p2 \o p3 : p1 \in Pieces, p2 \in Pieces, p3 \in Pieces}

\* where the program and the interrupt handlers are written
ProgramBase == \h0400
NmiHandler == \h0500
IrqHandler == \h0600

\* the machine after CPU::new, Bus::write_bytes of the program, of an RTI at
\* each handler and of the three vectors, and CPU::init
Boot(cpu_type, prog) ==
    LET m0 == CPU_new(cpu_type)
        m1 == Bus_write_bytes(m0, ProgramBase, prog)
        m2 == Bus_write_bytes(m1, NmiHandler, <<\h40>>)
        m3 == Bus_write_bytes(m2, IrqHandler, <<\h40>>)
        m4 == Bus_write_bytes(m3, \hFFFA,
                  << NmiHandler % 256, NmiHandler \div 256,
                     ProgramBase % 256, ProgramBase \div 256,
                     IrqHandler % 256, IrqHandler \div 256 >>)
    IN CPU_init(m4)

InitCPUOf(programs) ==
    /\ system_type = "Generic"
    /\ iou = IOU_new
    /\ \E cpu_type \in CpuTypes, prog \in programs : IsMachine(Boot(cpu_type, prog))
    /\ last_ops = <<>>
    /\ lc_reads = <<>>
    /\ nops = 0
    /\ last_call = "init"
    /\ poll = NoPoll
    /\ last_step = NoStep
    /\ n_steps = 0
    /\ n_req = 0
    /\ mmu = MMU_new
    /\ mem_ops = <<>>

InitCPU == InitCPUOf(Programs)

\* the record kept of a step that began in the current state and made the entry e
StepRecord(e) ==
    [kind |-> e.hi.kind, serviced |-> e.hi.serviced, ret |-> e.hi.ret,
     opcode |-> step_opcode(e),
     fetched_at |-> IF e.fetch THEN e.m.cpu.pc ELSE -1,
     pre |-> Machine, mid |-> e.hi.m]

\* CPU::step
Step ==
    /\ system_type = "Generic"
    /\ n_steps < MaxSteps
    /\ last_step' = StepRecord(step_entry(Machine))
    /\ last_step'.opcode \in ModelledOpcodes \cup {-1}
    /\ SetMachine(step(Machine))
    /\ n_steps' = n_steps + 1
    /\ last_call' = "step"
    /\ UNCHANGED <<system_type, iou, last_ops, lc_reads, nops, poll, n_req>>
    /\ UNCHANGED mmuvars

\* Bus::write_byte($BFFC, value) made between two steps
Request(value) ==
    /\ system_type = "Generic"
    /\ n_req < MaxReq
    /\ SetMachine(Bus_write_byte(Machine, \hBFFC, value))
    /\ n_req' = n_req + 1
    /\ last_call' = "write_byte"
    /\ UNCHANGED <<system_type, iou, last_ops, lc_reads, nops, poll, last_step, n_steps>>
    /\ UNCHANGED mmuvars

\* the values written to $BFFC: IRQ, NMI, both
RequestValues == {1, 2, 3}

RequestAny == \E value \in RequestValues : Request(value)

NextCPU == Step \/ RequestAny

SpecCPU == InitCPU /\ [][NextCPU]_vars

(***************************************************************************)
(* cpu.rs: init and reset called at any time, on either target             *)
(***************************************************************************)
\* CPU::initialize_soft_switches: five soft-switch writes through the bus
initialize_soft_switches(b) ==
    handle_iic_write(
        handle_iic_write(
            handle_iic_write(
                handle_iic_write(
                    handle_iic_write(b, \hC000, 0),
                    \hC054, 0),
                \hC051, 0),
            \hC028, 0),
        \hC008, 0)

\* soft-switch writes and reset vectors that init has to undo or to follow
InitSwitchAddrs == {\hC001, \hC055, \hC050, \hC009, \hC028}

\* reset vectors written before a cold boot on the Generic target
ResetVectors == {\h0600, \hFFFF}

SSWriteInit == \E addr \in InitSwitchAddrs : BusWrite(addr)

\* Bus::write_bytes($FFFC, [lo, hi]) on the Generic target
SetResetVector ==
    /\ system_type = "Generic"
    /\ \E v \in ResetVectors :
          SetMachine(Bus_write_bytes(Machine, \hFFFC, <<v % 256, v \div 256>>))
    /\ last_call' = "write_bytes"
    /\ UNCHANGED <<system_type, iou, last_ops, lc_reads, nops, poll, last_step,
                   n_steps, n_req>>
    /\ UNCHANGED mmuvars

\* CPU::init
CpuInit ==
    /\ IF system_type = "AppleIIc"
       THEN /\ SetMachine(CPU_init_iic(Machine))
            /\ iou' = initialize_soft_switches(IICBus).iou
       ELSE /\ SetMachine(CPU_init(Machine))
            /\ iou' = iou
    /\ last_call' = "init"
    /\ UNCHANGED <<system_type, last_ops, lc_reads, nops, poll, last_step,
                   n_steps, n_req>>
    /\ UNCHANGED mmuvars

\* ROM images of 64 KiB loaded before a warm reset, given by their non-zero
\* bytes.  The AppleIIc reads its reset vector at $3FFC of the image, where
\* it is $FFFF, and the Generic target at $FFFC, where it is $0600.
ResetRoms ==
    { (\h3FFC :> \hFF) @@ (\h3FFD :> \hFF) @@ (\hFFFD :> \h06) }

\* bus.rs: MEMORY_SIZE
MEMORY_SIZE == 64 * 1024

\* Bus::load_rom, system_type Generic: bus_ram.load_bytes(0, &rom.data[0..
\* MEMORY_SIZE]) overwrites the whole of bus_ram
Bus_load_rom(m, data) ==
    [m EXCEPT !.bus_ram = [a \in {y \in DOMAIN data : y < MEMORY_SIZE} |-> data[a]]]

\* CPU::load_rom(rom) / Bus::load_rom(rom)
LoadRom ==
    /\ ~Panicked
    /\ \E data \in ResetRoms :
          IF system_type = "AppleIIc"
          THEN /\ mmu' = MMU_load_rom(mmu, data)
               /\ UNCHANGED <<cpu, interrupts, bus_ram, i_port>>
          ELSE /\ SetMachine(Bus_load_rom(Machine, data))
               /\ mmu' = mmu
    /\ last_call' = "load_rom"
    /\ UNCHANGED <<system_type, iou, last_ops, lc_reads, nops, poll, last_step,
                   n_steps, n_req, mem_ops>>

\* CPU::resolve_entry_point, system_type AppleIIc, entry_point_override None:
\* the reset vector is read through the bus, from the ROM or from the
\* language-card RAM as the soft switches say
resolve_entry_point_iic(b) ==
    LET lo == handle_iic_read(b, \hFFFC).val
        hi == handle_iic_read(b, \hFFFD).val
        reset_vector == hi * 256 + lo
    IN IF reset_vector # \hFFFF THEN reset_vector ELSE \hC800

\* CPU::reset without the soft switches, entry being what resolve_entry_point
\* returns once the controller is cleared
CPU_reset(m, entry) ==
    initialize_flags(initialize_registers(
        [m EXCEPT !.interrupts = clear_all(m.interrupts), !.cpu.pc = entry]))

\* CPU::reset
CpuReset ==
    /\ IF system_type = "AppleIIc"
       THEN /\ SetMachine(CPU_reset(Machine, resolve_entry_point_iic(IICBus)))
            /\ iou' = initialize_soft_switches(IICBus).iou
       ELSE /\ SetMachine(CPU_reset(Machine, resolve_entry_point(Machine)))
            /\ iou' = iou
    /\ last_call' = "reset"
    /\ UNCHANGED <<system_type, last_ops, lc_reads, nops, poll, last_step,
                   n_steps, n_req>>
    /\ UNCHANGED mmuvars

\* programs booted before the second cold boot
InitPrograms ==
    { <<\hF8, \h58, \hA2, 1, \h9A>>,      \* SED ; CLI ; LDX #$01 ; TXS
      <<\hA9, 1, \h8D, \hFC, \hBF>>,      \* LDA #$01 ; STA $BFFC
      <<\h58, \h00>>,                     \* CLI ; BRK
      <<\hCB>>,                           \* WAI
      <<\hDB>> }                          \* STP

InitAny == InitCPUOf(InitPrograms) \/ \E cpu_type \in CpuTypes : InitIIcOf(cpu_type)

NextInit ==
    Step \/ RequestAny \/ SSWriteInit \/ SetResetVector \/ LoadRom \/ CpuInit \/ CpuReset

\* either target, driven as before and cold-booted or reset at any time
SpecInit == InitAny /\ [][NextInit]_vars

(***************************************************************************)
(* bus.rs and mmu.rs on the AppleIIc target, outside $C000-$C0FF: memory   *)
(* reads and writes under every setting of the routing switches            *)
(***************************************************************************)
MaxMemOps == 2

\* rom.data of the ROM loaded: 32 KiB, zero but for one byte in each of the
\* three ROM areas ($C100, $D000, $E000) of each of the two banks
RomImage ==
    (\h0100 :> \hA1) @@ (\h1000 :> \hA2) @@ (\h2000 :> \hA3) @@
    (\h4100 :> \hB1) @@ (\h5000 :> \hB2) @@ (\h6000 :> \hB3)

\* addresses read and written: zero page, stack, text page 1, hires page 1,
\* the 48K area outside them, and the three areas above the soft switches
MemAddrs == {\h0080, \h01FF, \h0400, \h2000, \h0800, \hC100, \hD000, \hE000}

\* the byte written
MemValues == {\h5A}

\* Bus::write_byte called for each soft-switch address of a sequence in turn
RECURSIVE SwitchWrites(_, _)
SwitchWrites(b, addrs) ==
    IF addrs = <<>> THEN b
    ELSE SwitchWrites(handle_iic_write(b, Head(addrs), 0), Tail(addrs))

\* the soft-switch writes that set 80STORE, PAGE2, RAMRD, RAMWRT and ALTZP to
\* the given values, flip ALTROM or not, and select an LC mode
ConfigWrites(store80, page2, ramrd, ramwrt, altzp, altrom, lc) ==
    << IF store80 THEN \hC001 ELSE \hC000,
       IF page2 THEN \hC055 ELSE \hC054,
       IF ramrd THEN \hC003 ELSE \hC002,
       IF ramwrt THEN \hC005 ELSE \hC004,
       IF altzp THEN \hC009 ELSE \hC008,
       lc >> \o (IF altrom THEN <<\hC028>> ELSE <<>>)

\* the LC latch addresses written to select a mode: one for each value of
\* the bits LCRAM, RDBNK and WRITE
ConfigLCAddrs == (\hC080 .. \hC083) \cup (\hC088 .. \hC08B)

\* CPU::new on the AppleIIc, load_rom, then soft-switch writes
InitMMU ==
    /\ system_type = "AppleIIc"
    /\ \E store80, page2, ramrd, ramwrt, altzp, altrom \in BOOLEAN, lc \in ConfigLCAddrs :
          iou = SwitchWrites(IICBusOf(IOU_new, MMU_new),
                             ConfigWrites(store80, page2, ramrd, ramwrt, altzp,
                                          altrom, lc)).iou
    /\ mmu = MMU_load_rom(MMU_new, RomImage)
    /\ mem_ops = <<>>
    /\ cpu = CPU_new("CMOS65C02").cpu
    /\ interrupts = InterruptController_default
    /\ bus_ram = Memory_new
    /\ i_port = 0
    /\ last_ops = <<>>
    /\ lc_reads = <<>>
    /\ nops = 0
    /\ last_call = "write_byte"
    /\ poll = NoPoll
    /\ last_step = NoStep
    /\ n_steps = 0
    /\ n_req = 0

\* a memory access as recorded in mem_ops
MemRd(addr, val) == [kind |-> "r", addr |-> addr, val |-> val]
MemWr(addr, val) == [kind |-> "w", addr |-> addr, val |-> val]

\* Bus::read_byte(addr) with addr outside $C000-$C0FF
MemRead(addr) ==
    /\ system_type = "AppleIIc"
    /\ Len(mem_ops) < MaxMemOps
    /\ iou' = handle_iic_read(IICBus, addr).iou
    /\ mem_ops' = Append(mem_ops, MemRd(addr, handle_iic_read(IICBus, addr).val))
    /\ last_call' = "read_byte"
    /\ UNCHANGED <<system_type, mmu, last_ops, lc_reads, nops, cpuvars, poll>>

\* Bus::write_byte(addr, value) with addr outside $C000-$C0FF
MemWrite(addr, value) ==
    /\ system_type = "AppleIIc"
    /\ Len(mem_ops) < MaxMemOps
    /\ iou' = handle_iic_write(IICBus, addr, value).iou
    /\ mmu' = handle_iic_write(IICBus, addr, value).mmu
    /\ mem_ops' = Append(mem_ops, MemWr(addr, value))
    /\ last_call' = "write_byte"
    /\ UNCHANGED <<system_type, last_ops, lc_reads, nops, cpuvars, poll>>

MemReadAny == \E addr \in MemAddrs : MemRead(addr)
MemWriteAny == \E addr \in MemAddrs, value \in MemValues : MemWrite(addr, value)

NextMMU == MemReadAny \/ MemWriteAny

\* the AppleIIc bus under any two memory accesses, from every routing
SpecMMU == InitMMU /\ [][NextMMU]_vars

\* the LC latches written to switch to LCRAM = 1 on the bank $C081 selects
LcSwitchAddrs == {\hC080, \hC083}

\* Bus::read_byte($C081), made up to twice before any memory access
LcLatchRead ==
    /\ nops < 2
    /\ mem_ops = <<>>
    /\ BusRead(\hC081)

\* Bus::write_byte to $C080 or $C083, made between a write to $D000 that
\* followed the two reads of $C081 and the next memory access
LcSwitch ==
    /\ nops = 2
    /\ Len(mem_ops) = 1
    /\ mem_ops[1].kind = "w"
    /\ mem_ops[1].addr = \hD000
    /\ \E sw \in LcSwitchAddrs : BusWrite(sw)

\* the AppleIIc bus under any two memory accesses, from every routing, with
\* the LC latch accesses of a write to $D000 and its read-back around them
SpecLC == InitMMU /\ [][MemReadAny \/ MemWriteAny \/ LcLatchRead \/ LcSwitch]_vars

(***************************************************************************)
(* ADC and SBC on the Generic target: ADC #M ; SBC #M is written to the    *)
(* flat RAM, the CPU is cold-booted, A and the CARRY and DECIMAL flags are *)
(* set through the public fields, and the CPU is stepped.                  *)
(***************************************************************************)
\* the bytes A is drawn from
ALUBytes == 0 .. 255

\* the operands: every pairing of the nibbles 0, 1, 2, 5, 7, 8, 9 and $F with
\* the nibbles 0, 1, 5, 7, 9, $A and $F
ALUOperands == {16 * high + low : high \in {0, 1, 2, 5, 7, 8, 9, 15},
                                  low \in {0, 1, 5, 7, 9, 10, 15}}

\* ADC #value ; SBC #value, then a byte outside ModelledOpcodes
ALUProgram(value) == <<\h69, value, \hE9, value, \h03>>

\* the machine m with regs.a and the CARRY and DECIMAL bits of p assigned
WithAccumulator(m, a, carry, decimal) ==
    [m EXCEPT !.cpu.a = a,
              !.cpu.p = Flags_set(Flags_set(m.cpu.p, Flags_CARRY, carry),
                                  Flags_DECIMAL, decimal)]

InitALU ==
    /\ system_type = "Generic"
    /\ iou = IOU_new
    /\ \E a \in ALUBytes, value \in ALUOperands, carry \in BOOLEAN, decimal \in BOOLEAN :
          IsMachine(WithAccumulator(Boot("CMOS65C02", ALUProgram(value)),
                                    a, carry, decimal))
    /\ last_ops = <<>>
    /\ lc_reads = <<>>
    /\ nops = 0
    /\ last_call = "init"
    /\ poll = NoPoll
    /\ last_step = NoStep
    /\ n_steps = 0
    /\ n_req = 0
    /\ mmu = MMU_new
    /\ mem_ops = <<>>

\* ADC then SBC of the same operand, from every accumulator, carry and
\* arithmetic mode
SpecALU == InitALU /\ [][Step]_vars

(***************************************************************************)
(* disassembler.rs                                                         *)
(***************************************************************************)
\* AddressingMode::operand_bytes
operand_bytes(mode) ==
    CASE mode \in {"Implied", "Accumulator"} -> 0
      [] mode \in {"Immediate", "ZeroPage", "ZeroPageX", "ZeroPageY",
                   "ZeroPageIndirect", "Relative", "IndirectX", "IndirectY"} -> 1
      [] mode \in {"Absolute", "AbsoluteX", "AbsoluteY", "Indirect",
                   "IndirectAbsolute"} -> 2

\* the addressing mode OPCODES gives for the opcodes of ModelledOpcodes
OPCODES(opcode) ==
    CASE opcode \in {\h00, \h02, \h18, \h1A, \h38, \h40, \h58, \h78, \h9A, \hCB,
                     \hD8, \hDA, \hDB, \hEA, \hF8, \hFA, \h60} -> "Implied"
      [] opcode \in {\h69, \h89, \hA2, \hA9, \hE9} -> "Immediate"
      [] opcode \in {\h0F, \h64, \h87} -> "ZeroPage"
      [] opcode \in {\h11, \h31, \h51, \h71, \h91, \hB1, \hD1, \hF1} -> "IndirectY"
      [] opcode = \hB2 -> "ZeroPageIndirect"
      [] opcode = \h80 -> "Relative"
      [] opcode \in {\h4C, \h8D, \h9C, \h20} -> "Absolute"
      [] opcode \in {\h99, \hB9} -> "AbsoluteY"
      [] opcode = \h6C -> "Indirect"

(***************************************************************************)
(* Single instructions on the Generic target: one instruction is written   *)
(* to the flat RAM with the data it addresses, the CPU is cold-booted, A,  *)
(* Y and the CARRY flag are set through the public fields, and the CPU is  *)
(* stepped.                                                                *)
(***************************************************************************)
\* the (zp),Y opcodes
IndirectYOpcodes == {\h11, \h31, \h51, \h71, \h91, \hB1, \hD1, \hF1}

\* the instructions, each followed by a byte outside ModelledOpcodes
OpsPrograms ==
    {instr \o <<\h03>> : instr \in
        {<<\h6C, \hFF, \h20>>, <<\h6C, \h80, \h20>>}
        \cup {<<opcode, zp>> : opcode \in IndirectYOpcodes, zp \in {\hFF, \h80}}
        \cup {<<\h80, \h00>>, <<\h80, \h05>>, <<\h80, \hFB>>,
              <<\h64, \h80>>, <<\h9C, \h10, \h30>>, <<\hDA>>, <<\hFA>>, <<\h1A>>,
              <<\h89, \h0F>>, <<\hB2, \h80>>, <<\h87, \h80>>,
              <<\h0F, \h80, \h00>>, <<\h0F, \h82, \h00>>, <<\h0F, \h82, \h04>>,
              <<\h02, \h00>>, <<\hCB>>, <<\hDB>>, <<\hEA>>,
              <<\hA9, \h01>>, <<\hA2, \h01>>, <<\h8D, \h10, \h30>>,
              <<\h4C, \h00, \h05>>, <<\h40>>, <<\h00>>,
              <<\hD8>>, <<\hF8>>, <<\h38>>, <<\h18>>, <<\h9A>>, <<\h58>>, <<\h78>>,
              <<\h69, \h27>>, <<\hE9, \h27>>}}

\* Bus::write_bytes of the data: the pointers at $FF/$00 (with $0100 after
\* it) and $80/$81, a byte with bit 0 set at $82, the bytes at and after the
\* three addresses the pointers can give, and the JMP vectors at $20FF (with
\* $2000 and $2100) and $2080
WithData(m) ==
    Bus_write_bytes(Bus_write_bytes(Bus_write_bytes(Bus_write_bytes(
    Bus_write_bytes(Bus_write_bytes(Bus_write_bytes(Bus_write_bytes(
    Bus_write_bytes(m,
        \h0000, <<\h30>>),
        \h0080, <<\h20, \h30, \h01>>),
        \h00FF, <<\h10, \h31>>),
        \h3010, <<\h0F, \hF0>>),
        \h3020, <<\hC3, \h3C>>),
        \h3110, <<\h55, \hAA>>),
        \h2000, <<\h56>>),
        \h2080, <<\h78, \h9A>>),
        \h20FF, <<\h34, \h12>>)

\* the machine m with regs.a, regs.y and the CARRY bit of p assigned
WithRegisters(m, a, y, carry) ==
    [m EXCEPT !.cpu.a = a, !.cpu.y = y,
              !.cpu.p = Flags_set(m.cpu.p, Flags_CARRY, carry)]

InitOps ==
    /\ system_type = "Generic"
    /\ iou = IOU_new
    /\ \E cpu_type \in CpuTypes, prog \in OpsPrograms,
          a \in {\h0F, \hC3}, y \in {0, 1}, carry \in BOOLEAN :
          IsMachine(WithRegisters(WithData(Boot(cpu_type, prog)), a, y, carry))
    /\ last_ops = <<>>
    /\ lc_reads = <<>>
    /\ nops = 0
    /\ last_call = "init"
    /\ poll = NoPoll
    /\ last_step = NoStep
    /\ n_steps = 0
    /\ n_req = 0
    /\ mmu = MMU_new
    /\ mem_ops = <<>>

\* every modelled instruction on every cpu_type
SpecOps == InitOps /\ [][Step]_vars

(***************************************************************************)
(* Subroutines, BRK under interrupt requests and absolute,Y accesses on    *)
(* the Generic target: a program is written with a subroutine and an NMI   *)
(* handler of two instructions, SP, A and Y are set through the public     *)
(* fields, the CPU is stepped and interrupts are requested between steps.  *)
(***************************************************************************)
\* where the subroutine is written
SubBase == \h0700

\* the bases of the absolute,Y instructions: in page zero near its top and
\* near its bottom, in RAM, and near the top of the address space
AbsYBases == {\h00F0, \h0010, \h3000, \hFFF0}

\* the programs, each followed by a byte outside ModelledOpcodes:
\* JSR SubBase; BRK and a padding byte, after SEI-state and after CLI;
\* STA base,Y ; LDA base,Y
FlowPrograms ==
    {prog \o <<\h03>> : prog \in
        {<<\h20, SubBase % 256, SubBase \div 256>>,
         <<\h00, \hEA>>,
         <<\h58, \h00, \hEA>>}
        \cup {<<\h99, base % 256, base \div 256, \hB9, base % 256, base \div 256>> :
                 base \in AbsYBases}}

\* Bus::write_bytes of NOP ; RTI at the NMI handler and of RTS at SubBase
WithRoutines(m) ==
    Bus_write_bytes(Bus_write_bytes(m, NmiHandler, <<\hEA, \h40>>), SubBase, <<\h60>>)

\* the machine m with regs.sp, regs.a and regs.y assigned
WithStack(m, sp, a, y) == [m EXCEPT !.cpu.sp = sp, !.cpu.a = a, !.cpu.y = y]

InitFlow ==
    /\ system_type = "Generic"
    /\ iou = IOU_new
    /\ \E cpu_type \in CpuTypes, prog \in FlowPrograms,
          sp \in {\hFF, \h01, \h00}, y \in {\h00, \h20} :
          IsMachine(WithStack(WithRoutines(Boot(cpu_type, prog)), sp, \h5A, y))
    /\ last_ops = <<>>
    /\ lc_reads = <<>>
    /\ nops = 0
    /\ last_call = "init"
    /\ poll = NoPoll
    /\ last_step = NoStep
    /\ n_steps = 0
    /\ n_req = 0
    /\ mmu = MMU_new
    /\ mem_ops = <<>>

\* the CPU stepped through the programs with interrupt requests in between
SpecFlow == InitFlow /\ [][Step \/ RequestAny]_vars

(***************************************************************************)
(* Properties of the Language-Card latches                                 *)
(***************************************************************************)
\* bits 4-6 (LCRAM, RDBNK, WRITE) of a memory-state byte, and the other bits
LCBits(ms) == BitAnd(ms, LCRAMMODEMASK)
OtherBits(ms) == BitAnd(ms, BitNot(LCRAMMODEMASK))
WriteBit(ms) == check_bits_u8(ms, MemStateMask_WRITE)

\* the six read-twice counters of an IOU
Counters(s) == <<s.c081_rr, s.c083_rr, s.c089_rr, s.c08b_rr, s.c08d_rr, s.c08f_rr>>

\* C1: from a freshly constructed IOU the first read of a read-twice address X
\* leaves the memory-state byte as constructed, and the second read of X right
\* after it sets bits 4-6 to X's mode (WRITE = 1) and leaves the other bits alone.
C1_SecondReadCommits ==
    \A X \in RRAddrs :
        /\ (nops = 1 /\ last_ops = <<Rd(X)>>) => iou.mem_state = IOU_new.mem_state
        /\ (nops = 2 /\ last_ops = <<Rd(X), Rd(X)>>) =>
              /\ LCBits(iou.mem_state) = LcRamModeOf(X)
              /\ WriteBit(iou.mem_state)
              /\ OtherBits(iou.mem_state) = OtherBits(IOU_new.mem_state)

\* two reads of the same read-twice address have just been made on a fresh IOU
\* and the mode differs from the constructed one
C1_Witness ==
    \E X \in RRAddrs :
        /\ nops = 2
        /\ last_ops = <<Rd(X), Rd(X)>>
        /\ iou.mem_state # IOU_new.mem_state
        /\ WriteBit(iou.mem_state)

\* C2: after a read of a read-twice address X and then a soft-switch read of
\* another address Y, the next single read of X does not commit X's mode: the
\* memory-state byte stays as it is.
C2_OtherReadResetsCounter ==
    [][\A X \in RRAddrs :
          ( /\ Len(last_ops) = 2
            /\ last_ops[1] = Rd(X)
            /\ last_ops[2].kind = "r"
            /\ last_ops[2].addr # X
            /\ BusRead(X) )
          => iou'.mem_state = iou.mem_state]_vars

\* C3: the WRITE bit is 1 only if the two most recent reads in $C080-$C08F were
\* of the same read-twice address (so it is 0 right after a read of a $C08x
\* address that differs from the one read just before it).
C3_WriteNeedsDoubleRead ==
    WriteBit(iou.mem_state) =>
        /\ Len(lc_reads) = 2
        /\ lc_reads[1] = lc_reads[2]
        /\ lc_reads[1] \in RRAddrs

\* C4: a bus write to a $C08x latch address commits at once: bits 4-6 become
\* the address's LC mode constant, the other bits and the six read-twice
\* counters keep their values.
C4_WriteCommitsAtOnce ==
    [][LET op == last_ops'[Len(last_ops')]
       IN (nops' = nops + 1 /\ op.kind = "w" /\ op.addr \in LCAddrs) =>
              /\ LCBits(iou'.mem_state) = LcRamModeOf(op.addr)
              /\ OtherBits(iou'.mem_state) = OtherBits(iou.mem_state)
              /\ Counters(iou') = Counters(iou)]_vars

\* a latch address has just been written while a counter was running and
\* bits outside 4-6 were set
C4_Witness ==
    /\ Len(last_ops) >= 1
    /\ last_ops[Len(last_ops)].kind = "w"
    /\ last_ops[Len(last_ops)].addr \in LCAddrs
    /\ \E i \in 1 .. 6 : Counters(iou)[i][2] >= 1
    /\ OtherBits(iou.mem_state) # 0
    /\ LCBits(iou.mem_state) # LCBits(IOU_new.mem_state)

(***************************************************************************)
(* Properties of the interrupt controller                                  *)
(***************************************************************************)
InterruptKinds == {"NMI", "RST", "BRK", "IRQ"}

\* the pending flag of an interrupt kind
PendingFlag(ic, kind) ==
    CASE kind = "NMI" -> ic.nmi
      [] kind = "RST" -> ic.reset
      [] kind = "BRK" -> ic.brk
      [] kind = "IRQ" -> ic.irq

\* rank in the order NMI > RST > BRK > IRQ (1 is highest)
Priority(kind) ==
    CASE kind = "NMI" -> 1
      [] kind = "RST" -> 2
      [] kind = "BRK" -> 3
      [] kind = "IRQ" -> 4

\* the vector argument that belongs to a kind, args = <<nmi, reset, irq>>
VectorOf(kind, args) ==
    CASE kind = "NMI" -> args[1]
      [] kind = "RST" -> args[2]
      [] kind = "BRK" -> args[3]
      [] kind = "IRQ" -> args[3]

Polled == last_call' = "handle_interrupt_with_vectors"

\* C5: with halted = false, handle_interrupt_with_vectors returns the set source
\* of highest priority in the order NMI > RST > BRK > IRQ together with that
\* source's vector (irq_vector for BRK and IRQ), and nothing iff no flag is set.
C5_PollPriority ==
    [][(Polled /\ ~interrupts.halted) =>
          LET pending == {k \in InterruptKinds : PendingFlag(interrupts, k)}
              ret == poll'.ret
          IN /\ (ret = NoInterrupt) <=> (pending = {})
             /\ pending # {} =>
                   /\ ret[1] \in pending
                   /\ \A k \in pending : Priority(ret[1]) <= Priority(k)
                   /\ ret[2] = VectorOf(ret[1], poll'.args)]_vars

\* the controller was polled with RST, BRK and IRQ pending and RST was returned
C5_Witness ==
    /\ last_call = "handle_interrupt_with_vectors"
    /\ poll.ret[1] = "RST"
    /\ poll.ret[2] = poll.args[2]
    /\ interrupts.brk
    /\ interrupts.irq
    /\ ~interrupts.nmi

\* C6: handle_interrupt_with_vectors clears exactly the selected flag when BRK
\* or RST wins and no flag when NMI or IRQ wins; everything else in the
\* controller keeps its value, and a halted controller is not changed at all.
C6_PollFrame ==
    [][Polled =>
          LET kind == poll'.ret[1]
          IN /\ interrupts.halted => (interrupts' = interrupts /\ poll'.ret = NoInterrupt)
             /\ kind = "BRK" => interrupts' = [interrupts EXCEPT !.brk = FALSE]
             /\ kind = "RST" => interrupts' = [interrupts EXCEPT !.reset = FALSE]
             /\ kind \in {"NMI", "IRQ", "None"} => interrupts' = interrupts]_vars

\* the controller was polled while waiting with BRK and IRQ pending: BRK was
\* returned and cleared, IRQ and waiting are still set
C6_Witness ==
    /\ last_call = "handle_interrupt_with_vectors"
    /\ poll.ret[1] = "BRK"
    /\ ~interrupts.brk
    /\ interrupts.irq
    /\ interrupts.waiting

(***************************************************************************)
(* Properties of the CPU's interrupt sequence                              *)
(***************************************************************************)
\* the byte the flat RAM of a machine holds at an address
RamAt(m, addr) == Memory_read_byte(m.bus_ram, addr)

\* the little-endian word a machine holds at an address
WordAt(m, addr) == RamAt(m, addr) + 256 * RamAt(m, WrapAdd16(addr, 1))

\* the stack address of a stack pointer lowered by n
StackAddr(s, n) == 256 + WrapSub8(s, n)

\* the address of the vector of an interrupt kind
VectorAddr(kind) ==
    CASE kind = "NMI" -> \hFFFA
      [] kind = "RST" -> \hFFFC
      [] kind = "BRK" -> \hFFFE
      [] kind = "IRQ" -> \hFFFE

IFlag(m) == Flags_contains(m.cpu.p, Flags_IRQ_DISABLE)
DFlag(m) == Flags_contains(m.cpu.p, Flags_DECIMAL)

\* no source other than the given kind is pending in a controller
OnlyPending(ic, kind) ==
    \A k \in InterruptKinds \ {kind} : ~PendingFlag(ic, k)

\* the last action was a CPU step
Stepped == last_call = "step"

\* C7: when a step services an NMI, or an IRQ with I = 0, the interrupt
\* sequence stores the high byte of PC at $0100+SP, its low byte one below and
\* P with U = 1 and B = 0 two below (wrapping in page 1), lowers SP by three,
\* sets I, clears D unless the CPU is an NMOS6502, loads PC from the vector
\* ($FFFA for NMI, $FFFE for IRQ) and clears the serviced flag and waiting.
C7_InterruptSequence ==
    LET pre == last_step.pre
        mid == last_step.mid
        kind == last_step.kind
        s == pre.cpu.sp
        pushed_p == Flags_remove(Flags_insert(pre.cpu.p, Flags_UNUSED), Flags_BREAK)
    IN ( /\ Stepped
         /\ last_step.serviced
         /\ kind = "NMI" \/ (kind = "IRQ" /\ ~IFlag(pre)) )
       => /\ RamAt(mid, StackAddr(s, 0)) = pre.cpu.pc \div 256
          /\ RamAt(mid, StackAddr(s, 1)) = pre.cpu.pc % 256
          /\ RamAt(mid, StackAddr(s, 2)) = pushed_p
          /\ mid.cpu.sp = WrapSub8(s, 3)
          /\ IFlag(mid)
          /\ DFlag(mid) = (pre.cpu.cpu_type = "NMOS6502" /\ DFlag(pre))
          /\ mid.cpu.pc = WordAt(pre, VectorAddr(kind))
          /\ ~PendingFlag(mid.interrupts, kind)
          /\ ~mid.interrupts.waiting

\* a step has serviced an NMI on a CMOS CPU with SP = $01 and D set, so that
\* the third push wrapped to $01FF and D was cleared
C7_Witness ==
    /\ Stepped
    /\ last_step.serviced
    /\ last_step.kind = "NMI"
    /\ last_step.pre.cpu.sp = 1
    /\ DFlag(last_step.pre)
    /\ last_step.pre.cpu.cpu_type = "CMOS65C02"
    /\ last_step.mid.cpu.sp = 254
    /\ ~DFlag(last_step.mid)
    /\ last_step.mid.cpu.pc = NmiHandler

\* C8: a step that services a pending unmasked interrupt (NMI, IRQ with I = 0,
\* BRK or RST) returns without fetching an instruction, and PC is the
\* interrupt's vector target when it returns.
C8_ServiceOnlyStep ==
    (Stepped /\ last_step.serviced) =>
        /\ last_step.opcode = -1
        /\ cpu.pc = WordAt(last_step.pre, VectorAddr(last_step.kind))

\* C9: a step that begins with IRQ as the only pending source and I = 1 has an
\* interrupt phase that changes neither the CPU, nor the stack, nor the
\* controller; a pending IRQ stays pending over every step that begins with
\* I = 1 or halted; and a step that begins with IRQ the only pending source,
\* I = 0 and not halted services it through $FFFE.
C9_MaskedIrqStaysPending ==
    [][n_steps' = n_steps + 1 =>
          /\ (interrupts.irq /\ OnlyPending(interrupts, "IRQ") /\ IFlag(Machine)) =>
                /\ last_step'.mid = Machine
                /\ ~last_step'.serviced
          /\ (interrupts.irq /\ (IFlag(Machine) \/ interrupts.halted)) =>
                interrupts'.irq
          /\ ( /\ interrupts.irq
               /\ OnlyPending(interrupts, "IRQ")
               /\ ~IFlag(Machine)
               /\ ~interrupts.halted ) =>
                /\ last_step'.serviced
                /\ last_step'.kind = "IRQ"
                /\ last_step'.mid.cpu.pc = WordAt(Machine, \hFFFE)
                /\ ~last_step'.mid.interrupts.irq]_vars

\* a step began with IRQ the only pending source and I = 1, left it pending
\* and executed CLI, so that the next step will service it
C9_Witness ==
    /\ Stepped
    /\ last_step.kind = "IRQ"
    /\ ~last_step.serviced
    /\ last_step.pre.interrupts.irq
    /\ last_step.mid = last_step.pre
    /\ last_step.opcode = \h58
    /\ interrupts.irq
    /\ ~IFlag(Machine)

\* C10: after a step that executed BRK at address a, on every cpu_type and with
\* either value of I, the next step (no other source pending) pushes a+2 high
\* byte then low byte, pushes P with B = 1 and U = 1, sets I, clears D iff the
\* CPU is not an NMOS6502, loads PC from the vector at $FFFE and clears brk.
C10_BrkSequence ==
    [][( /\ Stepped
         /\ last_step.opcode = \h00
         /\ OnlyPending(interrupts, "BRK")
         /\ n_steps' = n_steps + 1 )
       => LET a == last_step.fetched_at
              ret == WrapAdd16(a, 2)
              s == cpu.sp
              after == [cpu |-> cpu', interrupts |-> interrupts',
                        bus_ram |-> bus_ram', i_port |-> i_port']
              pushed_p == Flags_insert(Flags_insert(cpu.p, Flags_UNUSED), Flags_BREAK)
          IN /\ interrupts.brk
             /\ RamAt(after, StackAddr(s, 0)) = ret \div 256
             /\ RamAt(after, StackAddr(s, 1)) = ret % 256
             /\ RamAt(after, StackAddr(s, 2)) = pushed_p
             /\ cpu'.sp = WrapSub8(s, 3)
             /\ IFlag(after)
             /\ DFlag(after) = (cpu.cpu_type = "NMOS6502" /\ DFlag(Machine))
             /\ cpu'.pc = WordAt(Machine, \hFFFE)
             /\ ~interrupts'.brk]_vars

\* a step has serviced the BRK executed by the step before it on a CMOS CPU
\* that had I = 0 and D set: I is now set, D clear and PC at the handler
C10_Witness ==
    /\ Stepped
    /\ last_step.serviced
    /\ last_step.kind = "BRK"
    /\ last_step.pre.cpu.cpu_type = "CMOS65C02"
    /\ DFlag(last_step.pre)
    /\ ~IFlag(last_step.pre)
    /\ cpu.pc = IrqHandler
    /\ cpu.sp = WrapSub8(last_step.pre.cpu.sp, 3)
    /\ IFlag(Machine)
    /\ ~DFlag(Machine)

(***************************************************************************)
(* Properties of the STP and WAI states                                    *)
(***************************************************************************)
\* the action is a CPU step / an external request through $BFFC
IsStep == n_steps' = n_steps + 1
IsRequest == n_req' = n_req + 1

\* C11: on a WDC65C02S a step that executes STP leaves the CPU halted; a step
\* of a halted CPU changes neither the CPU, nor memory, nor the controller and
\* services nothing; and an NMI or IRQ requested while halted becomes pending
\* and leaves the CPU halted.
C11_HaltedStays ==
    [][cpu.cpu_type = "WDC65C02S" =>
          /\ (IsStep /\ last_step'.opcode = \hDB) => interrupts'.halted
          /\ (IsStep /\ interrupts.halted) =>
                /\ cpu' = cpu
                /\ bus_ram' = bus_ram
                /\ i_port' = i_port
                /\ interrupts' = interrupts
                /\ ~last_step'.serviced
                /\ last_step'.opcode = -1
          /\ (IsRequest /\ interrupts.halted) =>
                /\ interrupts'.halted
                /\ interrupts'.nmi \/ interrupts'.irq
                /\ interrupts.nmi => interrupts'.nmi
                /\ interrupts.irq => interrupts'.irq]_vars

\* a halted WDC65C02S has just been stepped with an NMI and an IRQ pending,
\* requested after STP executed with I = 0: both are still pending
C11_Witness ==
    /\ Stepped
    /\ cpu.cpu_type = "WDC65C02S"
    /\ last_step.pre.interrupts.halted
    /\ ~IFlag(last_step.pre)
    /\ interrupts.halted
    /\ interrupts.nmi
    /\ interrupts.irq
    /\ cpu = last_step.pre.cpu

\* C12: on a WDC65C02S a step that executes WAI with no NMI or IRQ pending
\* leaves the CPU waiting; a step of a waiting CPU with no NMI or IRQ pending
\* changes neither the CPU, nor memory, nor the controller; a request of NMI or
\* IRQ clears waiting; and the step after a request that followed WAI services
\* the interrupt if it is an NMI or I = 0, and otherwise executes the
\* instruction after WAI.
C12_WaitUntilRequest ==
    [][cpu.cpu_type = "WDC65C02S" =>
          /\ (IsStep /\ last_step'.opcode = \hCB /\ ~interrupts'.nmi /\ ~interrupts'.irq)
                => interrupts'.waiting
          /\ (IsStep /\ interrupts.waiting /\ ~interrupts.nmi /\ ~interrupts.irq) =>
                /\ cpu' = cpu
                /\ bus_ram' = bus_ram
                /\ i_port' = i_port
                /\ interrupts' = interrupts
                /\ last_step'.opcode = -1
          /\ (IsRequest /\ interrupts.waiting) =>
                /\ ~interrupts'.waiting
                /\ interrupts'.nmi \/ interrupts'.irq
          /\ (IsStep /\ last_step.opcode = \hCB /\ last_call = "write_byte") =>
                IF interrupts.nmi \/ ~IFlag(Machine)
                THEN /\ last_step'.serviced
                     /\ last_step'.kind = IF interrupts.nmi THEN "NMI" ELSE "IRQ"
                ELSE /\ ~last_step'.serviced
                     /\ last_step'.fetched_at = cpu.pc
                     /\ cpu.pc = WrapAdd16(last_step.fetched_at, 1)]_vars

\* a WDC65C02S that waited after WAI with I = 1 got an IRQ request, which
\* cleared waiting, and the next step executed the instruction after WAI
C12_Witness ==
    /\ Stepped
    /\ cpu.cpu_type = "WDC65C02S"
    /\ last_step.pre.interrupts.irq
    /\ ~last_step.pre.interrupts.waiting
    /\ IFlag(last_step.pre)
    /\ ~last_step.serviced
    /\ last_step.opcode \in ModelledOpcodes
    /\ RamAt(Machine, last_step.fetched_at - 1) = \hCB
    /\ interrupts.irq

(***************************************************************************)
(* Properties of init                                                      *)
(***************************************************************************)
\* the action is a call of CPU::init
IsInit == last_call' = "init"

UFlag(m) == Flags_contains(m.cpu.p, Flags_UNUSED)

\* C13: after init, on either target, with every cpu_type and from any state,
\* A = X = Y = SP = $FF and P has I = 1 and U = 1, with D = 0 unless the CPU
\* is an NMOS6502.
C13_InitRegisters ==
    [][IsInit =>
          /\ cpu'.a = 255 /\ cpu'.x = 255 /\ cpu'.y = 255 /\ cpu'.sp = 255
          /\ Flags_contains(cpu'.p, Flags_IRQ_DISABLE)
          /\ Flags_contains(cpu'.p, Flags_UNUSED)
          /\ cpu'.cpu_type # "NMOS6502" => ~Flags_contains(cpu'.p, Flags_DECIMAL)
          /\ cpu'.cpu_type = cpu.cpu_type]_vars

\* init has just been called on a Generic CMOS CPU whose last step was TXS with
\* X = $01 after SED and CLI: the registers are $FF again, I is set, D clear
C13_Witness ==
    /\ last_call = "init"
    /\ system_type = "Generic"
    /\ cpu.cpu_type = "CMOS65C02"
    /\ last_step.opcode = \h9A
    /\ DFlag(last_step.pre)
    /\ ~IFlag(last_step.pre)
    /\ last_step.pre.cpu.x = 1
    /\ cpu.sp = 255
    /\ cpu.x = 255
    /\ IFlag(Machine)
    /\ UFlag(Machine)
    /\ ~DFlag(Machine)

\* C14: after init PC is $FF59 on the Apple IIc; on the Generic target it is
\* the little-endian word at $FFFC/$FFFD, except $0400 when that word is $FFFF.
C14_InitEntryPoint ==
    [][IsInit =>
          cpu'.pc = IF system_type = "AppleIIc" THEN \hFF59
                    ELSE IF WordAt(Machine, \hFFFC) = \hFFFF THEN \h0400
                    ELSE WordAt(Machine, \hFFFC)]_vars

\* init has just been called on a Generic machine that had run a step and
\* whose reset vector had been rewritten to $FF,$FF: PC is $0400
C14_Witness ==
    /\ last_call = "init"
    /\ system_type = "Generic"
    /\ n_steps > 0
    /\ RamAt(Machine, \hFFFC) = 255
    /\ RamAt(Machine, \hFFFD) = 255
    /\ cpu.pc = \h0400

\* C15: init zeros the interrupt controller: after init nmi, irq, brk, reset,
\* waiting and halted are all false, whatever the controller held before.
C15_InitZerosController ==
    [][IsInit => interrupts' = InterruptController_default]_vars

\* C16: on the Apple IIc, from any soft-switch state, init leaves 80STORE off,
\* PAGE2 off, TEXT on, ALTROM = 0 and ALTZP = 0.
C16_InitKnownSwitches ==
    [][(IsInit /\ system_type = "AppleIIc") =>
          /\ ~iou'.is_80store
          /\ ~check_bits_u8(iou'.video_mode, VideoModeMask_PAGE2)
          /\ check_bits_u8(iou'.video_mode, VideoModeMask_TEXT)
          /\ ~check_bits_u8(iou'.mem_state, MemStateMask_ALTROM)
          /\ ~check_bits_u8(iou'.mem_state, MemStateMask_ALTZP)]_vars

(***************************************************************************)
(* Properties of the memory routing                                        *)
(***************************************************************************)
\* the value of a bit of the current memory-state byte, as 0 or 1
MemBit(mask) == IF BitAnd(iou.mem_state, mask) = mask THEN 1 ELSE 0

\* PAGE2 of the current video mode, as 0 or 1
Page2Bit == IF BitAnd(iou.video_mode, VideoModeMask_PAGE2) = VideoModeMask_PAGE2 THEN 1 ELSE 0

\* the byte a bank holds at an offset
ByteAt(bank, offset) == IF offset \in DOMAIN bank THEN bank[offset] ELSE 0

\* the memory access this step makes, and that it reads / writes address A
ThisOp == mem_ops'[Len(mem_ops')]
ReadsMem(A) == Len(mem_ops') = Len(mem_ops) + 1 /\ ThisOp.kind = "r" /\ ThisOp.addr = A
WritesMem(A) == Len(mem_ops') = Len(mem_ops) + 1 /\ ThisOp.kind = "w" /\ ThisOp.addr = A

\* the addresses 80STORE governs
DisplayAddrs == (\h0400 .. \h07FF) \cup (\h2000 .. \h3FFF)

\* C17: with RAMRD = RAMWRT and, for A >= $C100, LCRAM = 1 and WRITE = 1, a
\* write of v to an address A outside $C000-$C0FF followed by a read of A
\* returns v, whatever ALTZP, RDBNK, ALTROM, 80STORE and PAGE2 are.
C17_WriteThenRead ==
    [][\A A \in MemAddrs :
          ( /\ Len(mem_ops) > 0
            /\ mem_ops[Len(mem_ops)].kind = "w"
            /\ mem_ops[Len(mem_ops)].addr = A
            /\ ReadsMem(A)
            /\ MemBit(MemStateMask_RAMRD) = MemBit(MemStateMask_RAMWRT)
            /\ A >= \hC100 => (MemBit(MemStateMask_LCRAM) = 1 /\ MemBit(MemStateMask_WRITE) = 1) )
          => ThisOp.val = mem_ops[Len(mem_ops)].val]_vars

\* C18: with 80STORE on, a read or a write of an address in $0400-$07FF or
\* $2000-$3FFF accesses aux RAM when PAGE2 is set and main RAM when it is
\* clear, whatever RAMRD and RAMWRT are.
C18_DisplayFollowsPage2 ==
    [][\A A \in MemAddrs \cap DisplayAddrs :
          iou.is_80store =>
              /\ ReadsMem(A) => ThisOp.val = ByteAt(mmu.ram[Page2Bit], A)
              /\ WritesMem(A) =>
                    /\ ByteAt(mmu'.ram[Page2Bit], A) = ThisOp.val
                    /\ mmu'.ram[1 - Page2Bit] = mmu.ram[1 - Page2Bit]]_vars

\* C19: a read or a write of an address in $0000-$01FF accesses aux RAM iff
\* ALTZP = 1 and main RAM otherwise, whatever RAMRD, RAMWRT, 80STORE, PAGE2
\* and the LC mode bits are.
C19_ZeroPageFollowsAltzp ==
    [][\A A \in MemAddrs \cap (0 .. \h01FF) :
          /\ ReadsMem(A) => ThisOp.val = ByteAt(mmu.ram[MemBit(MemStateMask_ALTZP)], A)
          /\ WritesMem(A) =>
                /\ ByteAt(mmu'.ram[MemBit(MemStateMask_ALTZP)], A) = ThisOp.val
                /\ mmu'.ram[1 - MemBit(MemStateMask_ALTZP)] =
                       mmu.ram[1 - MemBit(MemStateMask_ALTZP)]
                /\ mmu'.lcram = mmu.lcram
                /\ mmu'.rom = mmu.rom]_vars

\* the top of the stack was written and read back with ALTZP = 1, RAMRD = 0,
\* RAMWRT = 0 and 80STORE off: the byte is in aux RAM and not in main RAM
C19_Witness ==
    /\ mem_ops = <<MemWr(\h01FF, \h5A), MemRd(\h01FF, \h5A)>>
    /\ MemBit(MemStateMask_ALTZP) = 1
    /\ MemBit(MemStateMask_RAMRD) = 0
    /\ MemBit(MemStateMask_RAMWRT) = 0
    /\ ~iou.is_80store
    /\ ByteAt(mmu.ram[1], \h01FF) = \h5A
    /\ ByteAt(mmu.ram[0], \h01FF) = 0

\* the bus after a soft-switch read of addr
AfterSwitchRead(b, addr) == IICBusOf(handle_iic_read(b, addr).iou, b.mmu)

\* the byte read at $D000 after two reads of $C081, a write of v to $D000 and
\* a write to the latch sw, all made on the bus b
LcScenarioRead(b, v, sw) ==
    handle_iic_read(
        handle_iic_write(
            handle_iic_write(
                AfterSwitchRead(AfterSwitchRead(b, \hC081), \hC081),
                \hD000, v),
            sw, 0),
        \hD000).val

\* the address A is read in this step and the byte returned is that at offset
\* A - $D000 of LC bank RDBNK + 2*RAMRD if LCRAM = 1 and otherwise that at
\* offset A - $C000 of ROM bank ALTROM
D000ReadRouted(A) ==
    ReadsMem(A) =>
        ThisOp.val =
            IF MemBit(MemStateMask_LCRAM) = 1
            THEN ByteAt(mmu.lcram[MemBit(MemStateMask_RDBNK)
                                  + 2 * MemBit(MemStateMask_RAMRD)],
                        A - \hD000)
            ELSE ByteAt(mmu.rom[MemBit(MemStateMask_ALTROM)], A - \hC000)

\* the bus accesses made so far are two reads of $C081, a write of v to
\* $D000, a write to the latch sw and a read of $D000, in this order
LcReadBackDone(v, sw) ==
    /\ nops = 3
    /\ lc_reads = <<\hC081, \hC081>>
    /\ last_ops = <<Rd(\hC081), Wr(sw)>>
    /\ Len(mem_ops) = 2
    /\ mem_ops[1] = MemWr(\hD000, v)
    /\ mem_ops[2].kind = "r"
    /\ mem_ops[2].addr = \hD000
    /\ last_call = "read_byte"

\* C20 as stated: a read of an address A in $D000-$DFFF returns the byte at
\* offset A - $D000 of LC bank RDBNK + 2*RAMRD if LCRAM = 1 and otherwise the
\* byte at offset A - $C000 of ROM bank ALTROM; and after two reads of $C081,
\* a write of v to $D000 and a switch to LCRAM = 1 on the same bank ($C080 or
\* $C083), a read of $D000 returns v.
C20_D000ReadBack ==
    /\ [][\A A \in MemAddrs \cap (\hD000 .. \hDFFF) : D000ReadRouted(A)]_vars
    /\ [](\A v \in MemValues, sw \in LcSwitchAddrs :
             LcReadBackDone(v, sw) => mem_ops[2].val = v)

\* C20: a read of an address A in $D000-$DFFF returns the byte at offset
\* A - $D000 of LC bank RDBNK + 2*RAMRD if LCRAM = 1 and otherwise the byte at
\* offset A - $C000 of ROM bank ALTROM; and whenever RAMRD = RAMWRT, after two
\* reads of $C081, a write of v to $D000 and a switch to LCRAM = 1 on the same
\* bank ($C080 or $C083), a read of $D000 returns v, both when these accesses
\* are the ones made and when they are made from any state reached.
C20_D000Routing ==
    /\ [][\A A \in MemAddrs \cap (\hD000 .. \hDFFF) : D000ReadRouted(A)]_vars
    /\ [](MemBit(MemStateMask_RAMRD) = MemBit(MemStateMask_RAMWRT) =>
             \A v \in MemValues, sw \in LcSwitchAddrs :
                 /\ LcReadBackDone(v, sw) => mem_ops[2].val = v
                 /\ LcScenarioRead(IICBus, v, sw) = v)

\* the two reads of $C081, the write of $5A to $D000, the write to $C083 and
\* the read of $D000 were made with RAMRD = RAMWRT = 1 from a routing with
\* LCRAM = 0, WRITE = 0 and RDBNK = 0: the read returned $5A, which is at
\* offset 0 of LC bank 3 and of no other LC bank, and the mode is that of
\* $C083 (LCRAM, RDBNK and WRITE set)
C20_Witness ==
    /\ LcReadBackDone(\h5A, \hC083)
    /\ mem_ops[2].val = \h5A
    /\ MemBit(MemStateMask_RAMRD) = 1
    /\ MemBit(MemStateMask_RAMWRT) = 1
    /\ MemBit(MemStateMask_LCRAM) = 1
    /\ MemBit(MemStateMask_RDBNK) = 1
    /\ MemBit(MemStateMask_WRITE) = 1
    /\ ByteAt(mmu.lcram[3], 0) = \h5A
    /\ \A i \in 0 .. 2 : ByteAt(mmu.lcram[i], 0) = 0
    /\ ByteAt(mmu.rom[MemBit(MemStateMask_ALTROM)], \h1000) \in {\hA2, \hB2}

\* C21: with WRITE = 0, a bus write to an address in $C100-$FFFF is dropped:
\* no RAM, Language-Card or ROM bank changes and no soft switch changes.
C21_WriteProtected ==
    [][\A A \in MemAddrs \cap (\hC100 .. \hFFFF) :
          (WritesMem(A) /\ MemBit(MemStateMask_WRITE) = 0)
              => (mmu' = mmu /\ iou' = iou)]_vars

\* $D000 was written with WRITE = 0 and LCRAM = 1 and then read: the read
\* returns 0 and every Language-Card bank is still empty
C21_Witness ==
    /\ mem_ops = <<MemWr(\hD000, \h5A), MemRd(\hD000, 0)>>
    /\ MemBit(MemStateMask_WRITE) = 0
    /\ MemBit(MemStateMask_LCRAM) = 1
    /\ \A i \in 0 .. 3 : mmu.lcram[i] = Memory_new

(***************************************************************************)
(* Properties of the feedback register $BFFC of the Generic target         *)
(***************************************************************************)
\* C22: on the Generic target, after bus.write_byte($BFFC, v) a read of
\* $BFFC returns v.
C22_FeedbackReadBack ==
    [][IsRequest =>
          \A v \in RequestValues :
              Request(v) => Bus_read_byte(Machine', \hBFFC) = v]_vars

\* the step made stores A at $BFFC (STA $BFFC fetched after the interrupt phase)
StoresFeedback(st) ==
    /\ st.opcode = \h8D
    /\ WordAt(st.mid, WrapAdd16(st.fetched_at, 1)) = \hBFFC

\* C23: bus.write_byte($BFFC, v) sets irq iff bit 0 of v is 1 and nmi iff
\* bit 1 of v is 1 (irq' = irq or bit 0, nmi' = nmi or bit 1) and clears no
\* pending flag; a write to another address (the pushes of the interrupt
\* sequence, a reset vector written with write_bytes) requests no interrupt.
C23_FeedbackRequests ==
    [][/\ IsRequest =>
             \A v \in RequestValues :
                 Request(v) =>
                     /\ interrupts'.irq = (interrupts.irq \/ BitAt(v, 0) = 1)
                     /\ interrupts'.nmi = (interrupts.nmi \/ BitAt(v, 1) = 1)
       /\ IsStep =>
             /\ last_step'.mid.interrupts.irq => interrupts.irq
             /\ last_step'.mid.interrupts.nmi => interrupts.nmi
             /\ interrupts'.irq =
                    ( \/ last_step'.mid.interrupts.irq
                      \/ StoresFeedback(last_step') /\ BitAt(last_step'.mid.cpu.a, 0) = 1 )
             /\ interrupts'.nmi =
                    ( \/ last_step'.mid.interrupts.nmi
                      \/ StoresFeedback(last_step') /\ BitAt(last_step'.mid.cpu.a, 1) = 1 )
       /\ last_call' = "write_bytes" =>
             (interrupts'.irq = interrupts.irq /\ interrupts'.nmi = interrupts.nmi)]_vars

\* $02 was written to $BFFC while the IRQ requested by an STA $BFFC step was
\* still pending: NMI is pending and IRQ still is
C23_Witness ==
    /\ last_call = "write_byte"
    /\ i_port = 2
    /\ last_step.opcode = \h8D
    /\ StoresFeedback(last_step)
    /\ interrupts.irq
    /\ interrupts.nmi

(***************************************************************************)
(* Properties of ADC and SBC                                               *)
(***************************************************************************)
CFlag(m) == Flags_contains(m.cpu.p, Flags_CARRY)
ZFlag(m) == Flags_contains(m.cpu.p, Flags_ZERO)
VFlag(m) == Flags_contains(m.cpu.p, Flags_OVERFLOW)
NFlag(m) == Flags_contains(m.cpu.p, Flags_NEGATIVE)

\* 1 for TRUE, 0 for FALSE
Bit(b) == IF b THEN 1 ELSE 0

\* the byte that follows the opcode of a step
Operand(st) == RamAt(st.mid, WrapAdd16(st.fetched_at, 1))

\* the last step executed the opcode
Executed(opcode) == Stepped /\ last_step.opcode = opcode

\* C24: with D = 0, ADC leaves A' = (A + M + C) mod 256, C' = 1 iff
\* A + M + C > 255, V = 1 iff A and M have the same sign bit and A' the
\* opposite one, Z = 1 iff A' = 0 and N = bit 7 of A'.
C24_BinaryAdc ==
    (Executed(\h69) /\ ~DFlag(last_step.mid)) =>
        LET A == last_step.mid.cpu.a
            M == Operand(last_step)
            C == Bit(CFlag(last_step.mid))
        IN /\ cpu.a = (A + M + C) % 256
           /\ CFlag(Machine) <=> (A + M + C > 255)
           /\ VFlag(Machine) <=> (BitAt(A, 7) = BitAt(M, 7) /\ BitAt(cpu.a, 7) # BitAt(A, 7))
           /\ ZFlag(Machine) <=> (cpu.a = 0)
           /\ Bit(NFlag(Machine)) = BitAt(cpu.a, 7)

\* ADC #$50 with A = $50, C = 0 and D = 0 has left A = $A0 with V and N set,
\* C and Z clear
C24_Witness ==
    /\ Executed(\h69)
    /\ ~DFlag(last_step.mid)
    /\ last_step.mid.cpu.a = \h50
    /\ Operand(last_step) = \h50
    /\ ~CFlag(last_step.mid)
    /\ cpu.a = \hA0
    /\ VFlag(Machine) /\ NFlag(Machine) /\ ~CFlag(Machine) /\ ~ZFlag(Machine)

\* the step being taken is the SBC of the operand that the last step, an ADC
\* in binary mode, added
SbcAfterAdc ==
    /\ IsStep
    /\ last_step.opcode = \h69
    /\ ~DFlag(last_step.mid)
    /\ last_step'.opcode = \hE9
    /\ ~DFlag(last_step'.mid)
    /\ Operand(last_step') = Operand(last_step)

\* C25 as stated: in binary mode, after ADC M then SBC M the carry equals the
\* initial carry iff the ADC produced no carry-out, and A is restored exactly
\* in those cases.
C25_AdcSbcRestores ==
    [][SbcAfterAdc =>
          /\ (CFlag(Machine') <=> CFlag(last_step.mid)) <=> ~CFlag(Machine)
          /\ (cpu'.a = last_step.mid.cpu.a) <=> ~CFlag(Machine)]_vars

\* C25 amended: in binary mode, ADC M then SBC M leaves
\* A'' = (A + C + c1 - 1) mod 256, c1 being the carry-out of the ADC, so A is
\* restored iff c1 differs from the initial carry C; the carry after the SBC
\* is 1 iff c1 = 0 and A + C >= 1, or A = $FF and C = 1.
C25_AdcSbcCarryChain ==
    [][SbcAfterAdc =>
          LET A == last_step.mid.cpu.a
              C == Bit(CFlag(last_step.mid))
              c1 == Bit(CFlag(Machine))
          IN /\ cpu'.a = (A + C + c1 + 255) % 256
             /\ (cpu'.a = A) <=> (c1 # C)
             /\ CFlag(Machine') <=> ( \/ c1 = 0 /\ A + C >= 1
                                      \/ A = \hFF /\ C = 1 )]_vars

\* ADC #$10 then SBC #$10 from A = $1F with C = 1: the ADC left A = $30 and
\* no carry, the SBC has left A = $1F again and the carry set
C25_Witness ==
    /\ Executed(\hE9)
    /\ n_steps = 2
    /\ ~DFlag(last_step.mid)
    /\ Operand(last_step) = \h10
    /\ RamAt(Machine, ProgramBase) = \h69
    /\ RamAt(Machine, ProgramBase + 1) = \h10
    /\ last_step.mid.cpu.a = \h30
    /\ ~CFlag(last_step.mid)
    /\ cpu.a = \h1F
    /\ CFlag(Machine)

\* a byte whose two nibbles are decimal digits, and the number it encodes
IsBCD(b) == b \div 16 <= 9 /\ b % 16 <= 9
FromBCD(b) == 10 * (b \div 16) + (b % 16)
ToBCD(n) == 16 * (n \div 10) + (n % 10)

\* C26: with D = 1 and valid BCD A and M encoding a and m, ADC leaves in A the
\* BCD encoding of (a + m + C) mod 100 and sets the carry iff a + m + C >= 100.
C26_DecimalAdc ==
    (/\ Executed(\h69)
     /\ DFlag(last_step.mid)
     /\ IsBCD(last_step.mid.cpu.a)
     /\ IsBCD(Operand(last_step))) =>
        LET sum == FromBCD(last_step.mid.cpu.a) + FromBCD(Operand(last_step))
                   + Bit(CFlag(last_step.mid))
        IN /\ cpu.a = ToBCD(sum % 100)
           /\ CFlag(Machine) <=> (sum >= 100)

\* ADC #$27 with D = 1, C = 0 and A = $15 has left A = $42, C = 0 and Z = 0
C26_Witness ==
    /\ Executed(\h69)
    /\ DFlag(last_step.mid)
    /\ ~CFlag(last_step.mid)
    /\ last_step.mid.cpu.a = \h15
    /\ Operand(last_step) = \h27
    /\ cpu.a = \h42
    /\ ~CFlag(Machine)
    /\ ~ZFlag(Machine)

(***************************************************************************)
(* Properties of single instructions                                       *)
(***************************************************************************)
\* the word that follows the opcode of a step
OperandWord(st) == WordAt(st.mid, WrapAdd16(st.fetched_at, 1))

\* C27: JMP (abs) with operand $XXFF takes the low byte of its target from
\* $XXFF and the high byte from $XX00 on an NMOS6502, from $XXFF + 1 on a
\* CMOS65C02 and a WDC65C02S; with any other operand every variant takes the
\* word at the operand address.
C27_JmpIndirect ==
    Executed(\h6C) =>
        LET addr == OperandWord(last_step)
            high_at == IF addr % 256 = \hFF /\ cpu.cpu_type = "NMOS6502"
                       THEN addr - \hFF
                       ELSE WrapAdd16(addr, 1)
        IN /\ cpu.pc = RamAt(last_step.mid, addr) + 256 * RamAt(last_step.mid, high_at)
           /\ addr % 256 # \hFF => cpu.pc = WordAt(last_step.mid, addr)

\* JMP ($20FF) on an NMOS6502 with $34 at $20FF, $56 at $2000 and $12 at
\* $2100 has left PC = $5634
C27_Witness ==
    /\ Executed(\h6C)
    /\ cpu.cpu_type = "NMOS6502"
    /\ OperandWord(last_step) = \h20FF
    /\ RamAt(last_step.mid, \h20FF) = \h34
    /\ RamAt(last_step.mid, \h2000) = \h56
    /\ RamAt(last_step.mid, \h2100) = \h12
    /\ cpu.pc = \h5634

\* the first step of the CPU has been made
FirstStep == Stepped /\ n_steps = 1

\* what a (zp),Y instruction leaves when its operand is the byte at ea: the
\* accumulator, the byte at ea, and the CARRY and ZERO flags
IndirectYEffect(opcode, st, ea) ==
    LET A == st.cpu.a
        value == RamAt(st, ea)
    IN CASE opcode = \h11 -> cpu.a = BitOr(A, value)
         [] opcode = \h31 -> cpu.a = BitAnd(A, value)
         [] opcode = \h51 -> cpu.a = BitXor(A, value)
         [] opcode = \h71 -> cpu = adc(st, value).cpu
         [] opcode = \h91 -> RamAt(Machine, ea) = A
         [] opcode = \hB1 -> cpu.a = value
         [] opcode = \hD1 -> /\ CFlag(Machine) <=> (A >= value)
                             /\ ZFlag(Machine) <=> (A = value)
         [] opcode = \hF1 -> cpu = sbc(st, value).cpu

\* C28: every (zp),Y instruction with zero-page operand $FF takes the low
\* byte of its pointer from $00FF and the high byte from $0000, never from
\* $0100: it acts on the byte at that pointer plus Y.
C28_IndirectYWraps ==
    (/\ FirstStep
     /\ last_step.opcode \in IndirectYOpcodes
     /\ Operand(last_step) = \hFF) =>
        LET st == last_step.mid
            pointer == RamAt(st, \h00FF) + 256 * RamAt(st, \h0000)
        IN IndirectYEffect(last_step.opcode, [st EXCEPT !.cpu.pc = cpu.pc],
                           WrapAdd16(pointer, st.cpu.y))

\* the CMOS-only opcodes among ModelledOpcodes, and the byte count of the
\* instructions of C29
CmosOnlyOpcodes == {\h0F, \h1A, \h64, \h80, \h87, \h89, \h9C, \hB2, \hDA, \hFA}

InstructionBytes(opcode) ==
    CASE opcode \in {\h1A, \hCB, \hDA, \hDB, \hFA} -> 1
      [] opcode \in {\h64, \h80, \h87, \h89, \hB2} -> 2
      [] opcode \in {\h0F, \h9C} -> 3

\* C29: on an NMOS6502 a CMOS-only opcode, and on any CPU but a WDC65C02S
\* WAI and STP, leave A, X, Y, SP, P and memory unchanged and advance PC by
\* the byte count of the instruction.
C29_UndefinedOpcodesAreNops ==
    (/\ FirstStep
     /\ \/ cpu.cpu_type = "NMOS6502" /\ last_step.opcode \in CmosOnlyOpcodes
        \/ cpu.cpu_type # "WDC65C02S" /\ last_step.opcode \in {\hCB, \hDB}) =>
        /\ cpu = [last_step.mid.cpu EXCEPT
                     !.pc = WrapAdd16(last_step.fetched_at,
                                      InstructionBytes(last_step.opcode))]
        /\ bus_ram = last_step.mid.bus_ram

\* the opcodes whose execution leaves PC after the last operand byte they
\* consume: all but BRK's interrupt entry aside, those that load PC (RTI, JMP,
\* JMP (abs), JSR, RTS) are left out, and BRA and BBR0 count when their offset is 0
LeavesPcAfterOperands(st) ==
    /\ st.opcode \in ModelledOpcodes \ {\h40, \h4C, \h6C, \h20, \h60}
    /\ st.opcode = \h80 => Operand(st) = 0
    /\ st.opcode = \h0F => RamAt(st.mid, WrapAdd16(st.fetched_at, 2)) = 0

\* C30: for every opcode and cpu_type the operand byte count the disassembler
\* reports (operand_bytes of the addressing mode in OPCODES) is the number of
\* bytes the CPU consumes after the opcode byte, i.e. the distance from the
\* byte after the opcode to PC once the instruction is executed.
C30_OperandBytesAgree ==
    (FirstStep /\ LeavesPcAfterOperands(last_step)) =>
        cpu.pc = WrapAdd16(last_step.fetched_at,
                           1 + operand_bytes(OPCODES(last_step.opcode)))

(***************************************************************************)
(* Properties of the ROM banks and of the cells behind distinct addresses  *)
(***************************************************************************)
\* C36: after load_rom no bus read or write changes a byte of either ROM
\* bank, and every read of an address in $C100-$FFFF made with LCRAM = 0
\* returned the byte of the loaded image at offset addr - $C000 of the bank
\* ALTROM selects.
C36_RomNeverWritten ==
    /\ \A i \in 0 .. 1 : mmu.rom[i] = RomBank(RomImage, i * ROM_SIZE)
    /\ \A k \in 1 .. Len(mem_ops) :
          ( /\ mem_ops[k].kind = "r"
            /\ mem_ops[k].addr >= \hC100
            /\ MemBit(MemStateMask_LCRAM) = 0 ) =>
              mem_ops[k].val =
                  Memory_read_byte(RomImage,
                                   MemBit(MemStateMask_ALTROM) * ROM_SIZE
                                       + (mem_ops[k].addr - \hC000))

\* $D000 was written with WRITE = 1 while LCRAM = 0 and ALTROM = 1, and the
\* read after it returned the byte at $1000 of the second ROM bank
C36_Witness ==
    /\ mem_ops = <<MemWr(\hD000, \h5A), MemRd(\hD000, \hB2)>>
    /\ MemBit(MemStateMask_LCRAM) = 0
    /\ MemBit(MemStateMask_WRITE) = 1
    /\ MemBit(MemStateMask_ALTROM) = 1
    /\ \E i \in 0 .. 3 : ByteAt(mmu.lcram[i], 0) = \h5A

\* C37: under a fixed soft-switch state a bus write to an address A outside
\* $C000-$C0FF leaves the value a bus read returns at every other address B
\* unchanged.
C37_DistinctCells ==
    [][(Len(mem_ops') = Len(mem_ops) + 1 /\ ThisOp.kind = "w") =>
          \A B \in MemAddrs \ {ThisOp.addr} :
              handle_iic_read(IICBusOf(iou', mmu'), B).val
                  = handle_iic_read(IICBus, B).val]_vars

(***************************************************************************)
(* Properties of the return from an interrupt                              *)
(***************************************************************************)
\* C34: when an NMI or an unmasked IRQ is serviced with PC = pc, P = p and
\* SP = s and RTI is then executed with SP = s - 3 and the three pushed bytes
\* intact (the handler is a single RTI, executed by the step that serviced
\* the interrupt), PC = pc, SP = s and P is p with U set and B cleared.
C34_InterruptRtiRoundTrip ==
    ( /\ Stepped
      /\ last_step.serviced
      /\ last_step.kind \in {"NMI", "IRQ"}
      /\ last_step.opcode = \h40
      /\ last_step.mid.cpu.sp = WrapSub8(last_step.pre.cpu.sp, 3) ) =>
        /\ cpu.pc = last_step.pre.cpu.pc
        /\ cpu.sp = last_step.pre.cpu.sp
        /\ cpu.p = Flags_remove(Flags_insert(last_step.pre.cpu.p, Flags_UNUSED),
                                Flags_BREAK)

\* an IRQ was serviced with I = 0 and SP = $01, so that the pushes wrapped to
\* $01FF, the sequence set I, and the RTI of the handler brought back SP = $01,
\* I = 0 and the interrupted PC
C34_Witness ==
    /\ Stepped
    /\ last_step.serviced
    /\ last_step.kind = "IRQ"
    /\ last_step.opcode = \h40
    /\ last_step.pre.cpu.sp = 1
    /\ ~IFlag(last_step.pre)
    /\ IFlag(last_step.mid)
    /\ last_step.mid.cpu.sp = \hFE
    /\ cpu.sp = 1
    /\ ~IFlag(Machine)
    /\ cpu.pc = last_step.pre.cpu.pc

(***************************************************************************)
(* Properties of the display switches                                      *)
(***************************************************************************)
\* a bit of the video-mode byte
VideoBit(mask) == check_bits_u8(iou.video_mode, mask)

\* the address of the soft-switch access made last
LastAccess == last_ops[Len(last_ops)].addr

\* C33: from IOU construction on, whatever soft-switch reads and writes are
\* made, the video-mode byte never has HIRES and LORES both set; an access to
\* $C056 leaves LORES set with HIRES and DHIRES clear, and an access to $C057
\* leaves HIRES set with LORES clear.
C33_HiresLoresExclusive ==
    /\ ~(VideoBit(VideoModeMask_HIRES) /\ VideoBit(VideoModeMask_LORES))
    /\ (nops > 0 /\ LastAccess = \hC056) =>
          /\ VideoBit(VideoModeMask_LORES)
          /\ ~VideoBit(VideoModeMask_HIRES)
          /\ ~VideoBit(VideoModeMask_DHIRES)
    /\ (nops > 0 /\ LastAccess = \hC057) =>
          /\ VideoBit(VideoModeMask_HIRES)
          /\ ~VideoBit(VideoModeMask_LORES)

\* LORES was selected by a read of $C056 and HIRES then by a write of $C057:
\* HIRES is set, LORES is clear again and TEXT is as constructed
C33_Witness ==
    /\ last_ops = <<Rd(\hC056), Wr(\hC057)>>
    /\ VideoBit(VideoModeMask_HIRES)
    /\ ~VideoBit(VideoModeMask_LORES)
    /\ VideoBit(VideoModeMask_TEXT)

(***************************************************************************)
(* Properties of the disassembler                                          *)
(***************************************************************************)
\* C31: Disassembler::disassemble(bus, addr) is read-only for every addr: it
\* leaves the CPU registers, every memory bank, the memory-state byte, the
\* video-mode byte, 80STORE, IOUDIS and the read-twice counters unchanged.
C31_DisassembleReadOnly ==
    [][last_call' = "disassemble" =>
          /\ cpu' = cpu
          /\ mmu' = mmu
          /\ bus_ram' = bus_ram
          /\ iou' = iou]_vars

(***************************************************************************)
(* Properties of the read-twice counters over long runs                    *)
(***************************************************************************)
\* C38: no soft-switch read ends in an overflow panic, and whenever the two
\* most recent soft-switch reads were of the same read-twice address, however
\* many reads of it came before, its counter holds a count of at least 2
\* within 0..255 and bits 4-6 of the memory-state byte are that address's LC
\* mode.
C38_CounterNeverWraps ==
    /\ ~Panicked
    /\ (Len(lc_reads) = 2 /\ lc_reads[1] = lc_reads[2] /\ lc_reads[1] \in RRAddrs
        /\ last_call = "read_byte") =>
        /\ iou[RRCounter(lc_reads[2])][2] \in 2 .. 255
        /\ LCBits(iou.mem_state) = LcRamModeOf(lc_reads[2])

(***************************************************************************)
(* Properties of JSR and RTS, of BRK under requests, and of absolute,Y     *)
(***************************************************************************)
\* the machine after the action
After == [cpu |-> cpu', interrupts |-> interrupts', bus_ram |-> bus_ram',
          i_port |-> i_port']

\* C32: a step that executes JSR at address a stores the high byte of a+2 at
\* $0100+SP and its low byte one below (wrapping in page 1), lowers SP by two
\* and sets PC to the target; an RTS executed by the next step, with that SP
\* and those bytes, sets PC = a+3 and SP to its value before the JSR.
C32_JsrRtsRoundTrip ==
    [][/\ (IsStep /\ last_step'.opcode = \h20) =>
             LET a == last_step'.fetched_at
                 s == last_step'.mid.cpu.sp
             IN /\ RamAt(After, StackAddr(s, 0)) = WrapAdd16(a, 2) \div 256
                /\ RamAt(After, StackAddr(s, 1)) = WrapAdd16(a, 2) % 256
                /\ cpu'.sp = WrapSub8(s, 2)
                /\ cpu'.pc = OperandWord(last_step')
       /\ ( /\ Stepped
            /\ last_step.opcode = \h20
            /\ IsStep
            /\ ~last_step'.serviced
            /\ last_step'.opcode = \h60 ) =>
             /\ cpu'.pc = WrapAdd16(last_step.fetched_at, 3)
             /\ cpu'.sp = last_step.mid.cpu.sp]_vars

\* JSR SubBase at ProgramBase ran with SP = $00, pushing $04 at $0100 and $02
\* at $01FF, and the RTS after it returned to ProgramBase + 3 with SP = $00
C32_Witness ==
    /\ Stepped
    /\ n_steps = 2
    /\ last_step.opcode = \h60
    /\ last_step.fetched_at = SubBase
    /\ last_step.pre.cpu.sp = \hFE
    /\ RamAt(Machine, \h0100) = \h04
    /\ RamAt(Machine, \h01FF) = \h02
    /\ cpu.sp = \h00
    /\ cpu.pc = ProgramBase + 3

\* the address of the BRK opcode whose request is pending in the current
\* state: the instruction of the last step, or, when that step serviced
\* another source with the BRK already pending, the byte before the PC that
\* step began with
PendingBrkAddress ==
    IF last_step.opcode = \h00
    THEN last_step.fetched_at
    ELSE WrapAdd16(last_step.pre.cpu.pc, 65535)

\* C35: whatever NMI and IRQ requests are made between steps, the return
\* address pushed by the step that services a BRK is the address of the BRK
\* opcode plus 2.
C35_BrkReturnAddress ==
    [][(IsStep /\ last_step'.serviced /\ last_step'.kind = "BRK") =>
          /\ RamAt(After, StackAddr(cpu.sp, 0)) = WrapAdd16(PendingBrkAddress, 2) \div 256
          /\ RamAt(After, StackAddr(cpu.sp, 1)) = WrapAdd16(PendingBrkAddress, 2) % 256]_vars

\* C39: STA base,Y and then LDA base,Y address the same byte: after the two
\* steps A is the value stored and the byte at (base + Y) mod 65536 holds it
\* (that address not being $BFFC).
C39_StaLdaAbsoluteY ==
    [][( /\ Stepped
         /\ last_step.opcode = \h99
         /\ IsStep
         /\ ~last_step'.serviced
         /\ last_step'.opcode = \hB9
         /\ OperandWord(last_step') = OperandWord(last_step)
         /\ cpu.y = last_step.mid.cpu.y
         /\ WrapAdd16(OperandWord(last_step), cpu.y) # \hBFFC ) =>
            /\ cpu'.a = last_step.mid.cpu.a
            /\ RamAt(After, WrapAdd16(OperandWord(last_step), cpu.y))
                   = last_step.mid.cpu.a]_vars

====
